---- MODULE Spec2Model ----
(***************************************************************************)
(* Model of the Gaard reporting core: statement reconciliation             *)
(* (statement_ingestion.py, main.py), calendar-window returns and the      *)
(* composite benchmark (return_metrics.py, portfolio_analytics.py).        *)
(*                                                                         *)
(* Text cells are sequences of one-character strings.  Money is an integer *)
(* number of cents (the amounts of the statements are finite), a return is *)
(* an exact fraction [n, d] in lowest terms, a date is the integer         *)
(* yyyymmdd.                                                               *)
(***************************************************************************)
EXTENDS Integers, Sequences, FiniteSets, TLC

VARIABLES pc, sections, holdings, total_nav, settled_cash, win, comp,
          summary_rows, csv, norm, risk, run

vars == <<pc, sections, holdings, total_nav, settled_cash, win, comp,
          summary_rows, csv, norm, risk, run>>

\* the state of the parser, the normalizer, the risk calculator and the
\* pipeline run, left alone by the other operations
aux == <<csv, norm, risk, run>>

(***************************************************************************)
(* Bounds                                                                  *)
(***************************************************************************)
MaxPosRows == 2
MaxDivRows == 1
MaxPerfRows == 1
MaxObs == 3
MaxDates == 2

(***************************************************************************)
(* Arithmetic helpers                                                      *)
(***************************************************************************)
Abs(x) == IF x < 0 THEN -x ELSE x

RECURSIVE Gcd(_, _)
Gcd(a, b) == IF b = 0 THEN a ELSE Gcd(b, a % b)

\* the exact value n/d, d # 0, in lowest terms with a positive denominator
Rat(n, d) ==
    LET g == Gcd(Abs(n), Abs(d))
        s == IF d < 0 THEN -1 ELSE 1
    IN  [n |-> (s * n) \div g, d |-> (s * d) \div g]

\* a + b over the least common denominator
RatAdd(a, b) ==
    LET g == Gcd(a.d, b.d)
    IN  Rat(a.n * (b.d \div g) + b.n * (a.d \div g), (a.d \div g) * b.d)

RECURSIVE SumSeq(_)
SumSeq(s) == IF s = <<>> THEN 0 ELSE Head(s) + SumSeq(Tail(s))

RECURSIVE RatSumSeq(_)
RatSumSeq(s) == IF s = <<>> THEN Rat(0, 1) ELSE RatAdd(Head(s), RatSumSeq(Tail(s)))

(***************************************************************************)
(* Python str operations used by the source                                *)
(***************************************************************************)
LowerCase == <<"a","b","c","d","e","f","g","h","i","j","k","l","m",
               "n","o","p","q","r","s","t","u","v","w","x","y","z">>
UpperCase == <<"A","B","C","D","E","F","G","H","I","J","K","L","M",
               "N","O","P","Q","R","S","T","U","V","W","X","Y","Z">>
Digits == <<"0","1","2","3","4","5","6","7","8","9">>

upper_char(c) ==
    IF \E i \in 1..26 : LowerCase[i] = c
    THEN UpperCase[CHOOSE i \in 1..26 : LowerCase[i] = c]
    ELSE c

str_upper(s) == [i \in 1..Len(s) |-> upper_char(s[i])]

RECURSIVE str_lstrip(_)
str_lstrip(s) == IF s # <<>> /\ Head(s) = " " THEN str_lstrip(Tail(s)) ELSE s

RECURSIVE str_rstrip(_)
str_rstrip(s) ==
    IF s # <<>> /\ s[Len(s)] = " " THEN str_rstrip(SubSeq(s, 1, Len(s) - 1)) ELSE s

str_strip(s) == str_rstrip(str_lstrip(s))

\* s.replace(c, "") for a one-character c
str_remove(s, c) == SelectSeq(s, LAMBDA ch : ch # c)

str_startswith(s, p) == Len(s) >= Len(p) /\ SubSeq(s, 1, Len(p)) = p

str_endswith(s, p) == Len(s) >= Len(p) /\ SubSeq(s, Len(s) - Len(p) + 1, Len(s)) = p

\* x in t
str_contains(t, x) == \E i \in 0..(Len(t) - Len(x)) : SubSeq(t, i + 1, i + Len(x)) = x

IsDigit(c) == \E i \in 1..10 : Digits[i] = c

DigitVal(c) == (CHOOSE i \in 1..10 : Digits[i] = c) - 1

RECURSIVE DigitsVal(_)
DigitsVal(s) == IF s = <<>> THEN 0 ELSE DigitsVal(SubSeq(s, 1, Len(s) - 1)) * 10 + DigitVal(s[Len(s)])

AllDigits(s) == \A i \in 1..Len(s) : IsDigit(s[i])

(***************************************************************************)
(* Field normalizer                                                        *)
(***************************************************************************)
\* index of the first "." of s, or Len(s) + 1 when there is none
DotIndex(s) ==
    IF \E i \in 1..Len(s) : s[i] = "."
    THEN CHOOSE i \in 1..Len(s) : s[i] = "." /\ \A j \in 1..(i - 1) : s[j] # "."
    ELSE Len(s) + 1

\* the first two fractional digits as hundredths
FracCents(f) ==
    IF Len(f) = 0 THEN 0
    ELSE IF Len(f) = 1 THEN DigitVal(f[1]) * 10
    ELSE DigitVal(f[1]) * 10 + DigitVal(f[2])

\* Python float literals other than decimals: inf, infinity and nan in any
\* letter case
NonFiniteWords ==
    [inf |-> { <<"I","N","F">>, <<"I","N","F","I","N","I","T","Y">> },
     nan |-> { <<"N","A","N">> }]

\* a float: a finite number of cents, or nan, or an infinity of sign v
Finite(c) == [k |-> "finite", v |-> c]

\* float(text): optional blanks, optional sign, then digits with at most
\* one decimal point, or inf / infinity / nan; anything else is a
\* ValueError.  Literals with an exponent or with digit-group underscores
\* are outside the cells this model is run on.
py_float(text) ==
    LET t      == str_strip(text)
        signed == t # <<>> /\ (Head(t) = "-" \/ Head(t) = "+")
        neg    == signed /\ Head(t) = "-"
        body   == IF signed THEN Tail(t) ELSE t
        k      == DotIndex(body)
        ip     == SubSeq(body, 1, k - 1)
        fp     == SubSeq(body, k + 1, Len(body))
        ok     == AllDigits(ip) /\ AllDigits(fp) /\ Len(ip) + Len(fp) >= 1
        mag    == DigitsVal(ip) * 100 + FracCents(fp)
    IN  IF ok
        THEN [ok |-> TRUE, k |-> "finite", v |-> IF neg THEN -mag ELSE mag]
        ELSE IF str_upper(body) \in NonFiniteWords.nan
        THEN [ok |-> TRUE, k |-> "nan", v |-> 0]
        ELSE IF str_upper(body) \in NonFiniteWords.inf
        THEN [ok |-> TRUE, k |-> "inf", v |-> IF neg THEN -1 ELSE 1]
        ELSE [ok |-> FALSE, k |-> "finite", v |-> 0]

\* the float of a cell: [k, v] as above
_coerce_float(value) ==
    IF value = <<>> THEN Finite(0)
    ELSE LET cleaned == str_strip(str_remove(str_remove(str_remove(value, ","), "$"), "%"))
         IN  IF cleaned = <<>> THEN Finite(0)
             ELSE LET unwrapped ==
                          IF str_startswith(cleaned, <<"(">>) /\ str_endswith(cleaned, <<")">>)
                          THEN <<"-">> \o SubSeq(cleaned, 2, Len(cleaned) - 1)
                          ELSE cleaned
                      parsed == py_float(unwrapped)
                  IN  IF parsed.ok THEN [k |-> parsed.k, v |-> parsed.v] ELSE Finite(0)

InvalidTickerWords ==
    { <<"T","O","T","A","L">>, <<"S","U","B","T","O","T","A","L">>,
      <<"S","T","O","C","K","S">>, <<"E","Q","U","I","T","Y">>,
      <<"B","O","N","D","S">>, <<"C","A","S","H">>, <<"F","U","N","D","S">> }

\* mutant: the symbol is compared without upper-casing
is_valid_ticker_case_sensitive(ticker) ==
    LET t == str_strip(ticker)
    IN  /\ t # <<>>
        /\ ~ \E x \in InvalidTickerWords : str_contains(t, x)

is_valid_ticker(ticker) ==
    LET t == str_strip(str_upper(ticker))
    IN  /\ t # <<>>
        /\ ~ \E x \in InvalidTickerWords : str_contains(t, x)

(***************************************************************************)
(* Reconciliation engine                                                   *)
(***************************************************************************)
USD == <<"U","S","D">>

RECURSIVE Dedupe(_)
\* the distinct elements of s, in order of first occurrence
Dedupe(s) ==
    IF s = <<>> THEN <<>>
    ELSE LET init == Dedupe(SubSeq(s, 1, Len(s) - 1))
             x    == s[Len(s)]
         IN  IF \E i \in 1..Len(init) : init[i] = x THEN init ELSE Append(init, x)

\* the Symbol column of a table
Symbols(rows) == [i \in 1..Len(rows) |-> rows[i].Symbol]

HasValidSymbol(r) == is_valid_ticker(r.Symbol)

\* step 1: the valid position rows with numeric Value and Cost Basis
clean_open_positions(df_open) ==
    LET kept == SelectSeq(df_open, HasValidSymbol)
    IN  [i \in 1..Len(kept) |->
            [Symbol |-> kept[i].Symbol,
             Value |-> _coerce_float(kept[i].Value).v,
             CostBasis |-> _coerce_float(kept[i].CostBasis).v]]

\* step 2: the valid dividend rows with numeric Amount
clean_dividends(df_div) ==
    LET kept == SelectSeq(df_div, HasValidSymbol)
    IN  [i \in 1..Len(kept) |->
            [Symbol |-> kept[i].Symbol, Amount |-> _coerce_float(kept[i].Amount).v]]

\* step 3: the valid performance rows with numeric Realized_P&L and Return
clean_perf_by_symbol(df_perf) ==
    LET kept == SelectSeq(df_perf, HasValidSymbol)
    IN  [i \in 1..Len(kept) |->
            [Symbol |-> kept[i].Symbol,
             RealizedPL |-> _coerce_float(kept[i].RealizedPL).v,
             Return |-> _coerce_float(kept[i].Return).v]]

RowsOfSymbol(rows, symbol) == SelectSeq(rows, LAMBDA r : r.Symbol = symbol)

\* mutant: the value of the first row of the symbol (duplicates dropped)
SumValue_first(o, symbol) ==
    LET g == RowsOfSymbol(o, symbol) IN IF g = <<>> THEN 0 ELSE g[1].Value

\* o[o['Symbol'] == symbol]['Value'].sum()
SumValue(o, symbol) ==
    LET g == RowsOfSymbol(o, symbol) IN SumSeq([i \in 1..Len(g) |-> g[i].Value])

\* o[o['Symbol'] == symbol]['Cost Basis'].sum()
SumCostBasis(o, symbol) ==
    LET g == RowsOfSymbol(o, symbol) IN SumSeq([i \in 1..Len(g) |-> g[i].CostBasis])

\* div_map.get(symbol, 0.0)
SumAmount(d, symbol) ==
    LET g == RowsOfSymbol(d, symbol) IN SumSeq([i \in 1..Len(g) |-> g[i].Amount])

\* real_map.get(symbol, 0.0)
SumRealized(p, symbol) ==
    LET g == RowsOfSymbol(p, symbol) IN SumSeq([i \in 1..Len(g) |-> g[i].RealizedPL])

HasSymbol(rows, symbol) == \E i \in 1..Len(rows) : rows[i].Symbol = symbol

\* set_index('Symbol')[...].to_dict(): the last row of a symbol wins
LastRowOf(rows, symbol) ==
    rows[CHOOSE i \in 1..Len(rows) :
            rows[i].Symbol = symbol /\ \A j \in (i + 1)..Len(rows) : rows[j].Symbol # symbol]

\* mutant: the symbols are kept in a list, one entry per source row
all_symbols_list(o, d, p) ==
    SelectSeq(Symbols(o) \o Symbols(d) \o Symbols(p),
              LAMBDA sym : sym # <<>>)

\* mutant: only the tickers of the position table (inner join)
all_symbols_positions_only(o, d, p) ==
    SelectSeq(Dedupe(Symbols(o)), LAMBDA sym : sym # <<>>)

\* mutant: without a position table no symbol is collected
all_symbols_requires_positions(o, d, p) ==
    IF o = <<>> THEN <<>>
    ELSE SelectSeq(Dedupe(Symbols(o) \o Symbols(d) \o Symbols(p)),
                   LAMBDA sym : sym # <<>>)

\* the union of the symbols of the three cleaned tables, '' discarded
all_symbols(o, d, p) ==
    SelectSeq(Dedupe(Symbols(o) \o Symbols(d) \o Symbols(p)),
              LAMBDA sym : sym # <<>>)

\* mutant: the computed return whenever the cost basis is positive
symbol_return_computed_first(p, symbol, cv, cb, div, real) ==
    IF cb > 0 THEN Rat((cv - cb) + div + real, cb)
    ELSE IF HasSymbol(p, symbol) THEN Rat(LastRowOf(p, symbol).Return, 10000)
    ELSE Rat(0, 1)

\* the return logic of one symbol
symbol_return(p, symbol, cv, cb, div, real) ==
    IF HasSymbol(p, symbol) THEN Rat(LastRowOf(p, symbol).Return, 10000)
    ELSE IF cb > 0 THEN Rat((cv - cb) + div + real, cb)
    ELSE Rat(0, 1)

holding_row(o, d, p, symbol) ==
    LET cv   == SumValue(o, symbol)
        cb   == SumCostBasis(o, symbol)
        div  == SumAmount(d, symbol)
        real == SumRealized(p, symbol)
    IN  [ticker |-> symbol,
         raw_value |-> cv,
         avg_cost |-> cb,
         total_dividends |-> div,
         realized_pl |-> real,
         cumulative_return |-> symbol_return(p, symbol, cv, cb, div, real)]

\* df['raw_value'].sum()
SumRawValue(rows) == SumSeq([i \in 1..Len(rows) |-> rows[i].raw_value])

\* weights strictly based on current values
with_avg_weight(rows) ==
    LET total_val == SumRawValue(rows)
    IN  [i \in 1..Len(rows) |->
            [ticker |-> rows[i].ticker,
             raw_value |-> rows[i].raw_value,
             avg_cost |-> rows[i].avg_cost,
             total_dividends |-> rows[i].total_dividends,
             realized_pl |-> rows[i].realized_pl,
             cumulative_return |-> rows[i].cumulative_return,
             avg_weight |-> IF total_val # 0 THEN Rat(rows[i].raw_value, total_val)
                            ELSE Rat(0, 1)]]

process_holdings_from_data(s) ==
    LET o    == clean_open_positions(s.open_positions)
        d    == clean_dividends(s.dividends)
        p    == clean_perf_by_symbol(s.perf_by_symbol)
        syms == all_symbols(o, d, p)
    IN  with_avg_weight([i \in 1..Len(syms) |-> holding_row(o, d, p, syms[i])])

\* EndingNAV of the first Key Statistics row, 0.0 without one
extract_key_statistics(s) ==
    IF s.key_statistics = <<>> THEN 0
    ELSE _coerce_float(s.key_statistics[1].EndingNAV).v

IsCashRow(r) == str_upper(str_strip(r.Symbol)) = USD

\* the Value of the first position row whose symbol is USD, 0.0 without one
extract_settled_cash(s) ==
    LET cash_row == SelectSeq(s.open_positions, IsCashRow)
    IN  IF cash_row = <<>> THEN 0 ELSE _coerce_float(cash_row[1].Value).v

(***************************************************************************)
(* run_pipeline, step 1: ticker clean-up and weights                       *)
(***************************************************************************)
IGNORE_EXACT == { <<"C","A","S","H">>, <<"T","O","T","A","L"," ","C","A","S","H">> }

IGNORE_STARTSWITH == { <<"9","1","2","7","9","7","P","N","1">> }

\* one cent, in cents: the "zero value" cut-off 0.01
ZeroValueCutoff == 1

KeptByCleanTickers(r) ==
    /\ str_upper(r.ticker) \notin IGNORE_EXACT
    /\ ~ \E prefix \in IGNORE_STARTSWITH : str_startswith(r.ticker, prefix)
    /\ Abs(r.raw_value) > ZeroValueCutoff

clean_tickers(h) == SelectSeq(h, KeptByCleanTickers)

\* mutant: the weights computed before the clean-up are kept
calculate_weights_stale(h) ==
    [i \in 1..Len(h) |-> [weight |-> h[i].avg_weight] @@ h[i]]

calculate_weights(h) ==
    LET total_value == SumRawValue(h)
    IN  [i \in 1..Len(h) |->
            [weight |-> IF total_value # 0 THEN Rat(h[i].raw_value, total_value)
                        ELSE Rat(0, 1)] @@ h[i]]

(***************************************************************************)
(* Statements the runs are started on                                      *)
(***************************************************************************)
BSeq(S, n) == UNION { [1..k -> S] : k \in 0..n }

AAPL == <<"A","A","P","L">>
MSFT == <<"M","S","F","T">>
IBM == <<"I","B","M">>
ACCRUALS == <<"A","c","c","r","u","a","l","s">>
TBILL == <<"9","1","2","7","9","7","P","N","1">>
TotalLine == <<"T","o","t","a","l">>

PositionRowChoices ==
    { [Symbol |-> AAPL, Value |-> <<"1","2","0","0">>, CostBasis |-> <<"1","0","0","0">>],
      [Symbol |-> AAPL, Value |-> <<"$","1",",","2","0","0",".","0","0">>, CostBasis |-> <<>>],
      [Symbol |-> USD, Value |-> <<"4","0">>, CostBasis |-> <<"4","0">>],
      [Symbol |-> TotalLine, Value |-> <<"1",",","2","4","0">>, CostBasis |-> <<"1","0","0","0">>],
      [Symbol |-> ACCRUALS, Value |-> <<"1","0">>, CostBasis |-> <<"1","0">>],
      [Symbol |-> MSFT, Value |-> <<"(","1","2","0","0",")">>, CostBasis |-> <<"(","1","0","0","0",")">>],
      [Symbol |-> TBILL, Value |-> <<"5","0","0">>, CostBasis |-> <<"5","0","0">>],
      [Symbol |-> IBM, Value |-> <<"0",".","0","1">>, CostBasis |-> <<"n","/","a">>] }

DividendRowChoices ==
    { [Symbol |-> AAPL, Amount |-> <<"1","0">>],
      [Symbol |-> IBM, Amount |-> <<"5",".","5","0">>],
      [Symbol |-> TotalLine, Amount |-> <<"1","5",".","5","0">>] }

PerfRowChoices ==
    { [Symbol |-> AAPL, RealizedPL |-> <<"0">>, Return |-> <<"3",".","0","7">>],
      [Symbol |-> IBM, RealizedPL |-> <<"2","0">>, Return |-> <<"-","1",".","5","0","%">>] }

KeyStatisticsChoices ==
    { <<>>,
      << [EndingNAV |-> <<"1","2","5","0">>] >>,
      << [EndingNAV |-> <<"1",",","2","4","0",".","5","0">>] >>,
      << [EndingNAV |-> <<"1","2","1","0">>] >> }

Statements ==
    [open_positions : BSeq(PositionRowChoices, MaxPosRows),
     dividends : BSeq(DividendRowChoices, MaxDivRows),
     perf_by_symbol : BSeq(PerfRowChoices, MaxPerfRows),
     key_statistics : KeyStatisticsChoices]

(***************************************************************************)
(* run_pipeline, steps 1d and 3: classification and bucket summary         *)
(***************************************************************************)
BENCHMARK_CONFIG ==
    << [bucket |-> <<"U",".","S","."," ","E","q","u","i","t","i","e","s">>, tickers |-> << "SPY" >>],
       [bucket |-> <<"I","n","t","e","r","n","a","t","i","o","n","a","l"," ","E","q","u","i","t","i","e","s">>, tickers |-> << "ACWI" >>],
       [bucket |-> <<"F","i","x","e","d"," ","I","n","c","o","m","e">>, tickers |-> << "AGG" >>],
       [bucket |-> <<"A","l","t","e","r","n","a","t","i","v","e"," ","A","s","s","e","t","s">>, tickers |-> << "QAI" >>],
       [bucket |-> <<"C","a","s","h">>, tickers |-> << "BIL" >>] >>

auto_classify_asset(ticker, security_name) ==
    LET t == str_strip(str_upper(ticker))
        n == str_strip(str_upper(security_name))
    IN  IF t \in { <<"U","S","D">>, <<"I","C","S","H">> } THEN <<"C","a","s","h">>
        ELSE IF t \in { <<"V","E","A">>, <<"V","W","O">>, <<"I","M","T","M">>, <<"V","X","U","S">> } THEN <<"I","n","t","e","r","n","a","t","i","o","n","a","l"," ","E","q","u","i","t","i","e","s">>
        ELSE IF t \in { <<"B","N","D">>, <<"V","G","S","H">>, <<"V","G","I","T">> } THEN <<"F","i","x","e","d"," ","I","n","c","o","m","e">>
        ELSE IF t \in { <<"V","N","Q">>, <<"B","C","I">> } THEN <<"A","l","t","e","r","n","a","t","i","v","e"," ","A","s","s","e","t","s">>
        ELSE IF \E k \in { <<"I","N","T","L">>, <<"E","M","E","R","G","I","N","G">>, <<"E","U","R","O","P","E">>, <<"A","S","I","A">>, <<"D","E","V","E","L","O","P","E","D">> } :
                    str_contains(n, k)
        THEN <<"I","n","t","e","r","n","a","t","i","o","n","a","l"," ","E","q","u","i","t","i","e","s">>
        ELSE IF \E k \in { <<"B","O","N","D">>, <<"T","R","E","A","S","U","R","Y">>, <<"F","I","X","E","D"," ","I","N","C">>, <<"A","G","G","R","E","G","A","T","E">> } :
                    str_contains(n, k)
        THEN <<"F","i","x","e","d"," ","I","n","c","o","m","e">>
        ELSE IF \E k \in { <<"R","E","I","T">>, <<"R","E","A","L"," ","E","S","T","A","T","E">>, <<"G","O","L","D">>, <<"C","O","M","M","O","D","I","T","Y">>, <<"B","I","T","C","O","I","N">> } :
                    str_contains(n, k)
        THEN <<"A","l","t","e","r","n","a","t","i","v","e"," ","A","s","s","e","t","s">>
        ELSE <<"U",".","S","."," ","E","q","u","i","t","i","e","s">>

\* holdings['ticker'].map(name_map).fillna(''), then the asset class
classify(h, name_map) ==
    [i \in 1..Len(h) |->
        LET name == IF h[i].ticker \in DOMAIN name_map THEN name_map[h[i].ticker] ELSE <<>>
        IN  [official_name |-> name,
             asset_class |-> auto_classify_asset(h[i].ticker, name)] @@ h[i]]

\* holdings['asset_class'].unique()
my_buckets(h) == Dedupe([i \in 1..Len(h) |-> h[i].asset_class])

\* the buckets of BENCHMARK_CONFIG that occur, then the other ones
sorted_buckets(h) ==
    LET mine       == my_buckets(h)
        configured == [i \in 1..Len(BENCHMARK_CONFIG) |-> BENCHMARK_CONFIG[i].bucket]
        IsMine(b)  == \E i \in 1..Len(mine) : mine[i] = b
        IsConf(b)  == \E i \in 1..Len(configured) : configured[i] = b
    IN  SelectSeq(configured, IsMine) \o SelectSeq(mine, LAMBDA b : ~IsConf(b))

\* mutant: one instrument per asset class
bucket_data_first(h, bucket) ==
    LET rows == SelectSeq(h, LAMBDA r : r.asset_class = bucket)
    IN  IF rows = <<>> THEN <<>> ELSE << rows[1] >>

\* holdings[holdings['asset_class'] == bucket]
bucket_data(h, bucket) == SelectSeq(h, LAMBDA r : r.asset_class = bucket)

SumAvgCost(rows) == SumSeq([i \in 1..Len(rows) |-> rows[i].avg_cost])
SumDividends(rows) == SumSeq([i \in 1..Len(rows) |-> rows[i].total_dividends])
SumRealizedPL(rows) == SumSeq([i \in 1..Len(rows) |-> rows[i].realized_pl])

\* the Bucket row of one asset class
bucket_row(h, bucket) ==
    LET data        == bucket_data(h, bucket)
        grand_value == SumRawValue(h)
        b_mv        == SumRawValue(data)
        b_cost      == SumAvgCost(data)
        b_divs      == SumDividends(data)
        b_realized  == SumRealizedPL(data)
    IN  [Type |-> "Bucket",
         Name |-> bucket,
         MarketValue |-> b_mv,
         Allocation |-> IF grand_value # 0 THEN Rat(b_mv, grand_value) ELSE Rat(0, 1),
         Return |-> IF b_cost # 0 THEN Rat((b_mv - b_cost) + b_divs + b_realized, b_cost)
                    ELSE Rat(0, 1),
         IsCash |-> (bucket = <<"C","a","s","h">>)]

\* the Benchmark rows that follow the Bucket row (market value and
\* allocation are None; their returns come from the period index)
benchmark_rows(bucket) ==
    LET conf == SelectSeq(BENCHMARK_CONFIG, LAMBDA c : c.bucket = bucket)
    IN  IF conf = <<>> THEN <<>>
        ELSE [i \in 1..Len(conf[1].tickers) |->
                 [Type |-> "Benchmark", Name |-> conf[1].tickers[i], IsCash |-> FALSE]]

RECURSIVE summary_of(_, _)
summary_of(h, buckets) ==
    IF buckets = <<>> THEN <<>>
    ELSE << bucket_row(h, Head(buckets)) >> \o benchmark_rows(Head(buckets))
            \o summary_of(h, Tail(buckets))

\* the rows of summary_df
build_summary_rows(h) == summary_of(h, sorted_buckets(h))

\* fetch_security_names_yf: the official name in upper case, or the ticker
\* itself when Yahoo has no name
NameMapChoices ==
    { [t \in {AAPL, MSFT, IBM, USD, ACCRUALS} |-> t],
      [t \in {AAPL, MSFT, IBM, USD, ACCRUALS} |->
          IF t = AAPL THEN <<"A","P","P","L","E"," ","I","N","C">>
          ELSE IF t = MSFT THEN <<"G","O","L","D"," ","T","R","U","S","T">>
          ELSE IF t = IBM THEN <<"I","N","T","L"," ","B","U","S","I","N","E","S","S"," ","M","A","C","H","I","N","E","S">>
          ELSE IF t = ACCRUALS THEN <<"A","G","G","R","E","G","A","T","E"," ","B","O","N","D"," ","E","T","F">>
          ELSE t] }

Idle == [op |-> "idle"]

AuxIdle == csv = Idle /\ norm = Idle /\ risk = Idle /\ run = Idle

(***************************************************************************)
(* The report run on one statement                                         *)
(***************************************************************************)
Init ==
    /\ pc = "start"
    /\ sections \in Statements
    /\ holdings = <<>>
    /\ total_nav = 0
    /\ settled_cash = 0
    /\ win = Idle
    /\ comp = Idle
    /\ summary_rows = <<>>
    /\ AuxIdle

\* statement_ingestion.get_portfolio_holdings
get_portfolio_holdings ==
    /\ pc = "start"
    /\ total_nav' = extract_key_statistics(sections)
    /\ holdings' = process_holdings_from_data(sections)
    /\ settled_cash' = extract_settled_cash(sections)
    /\ pc' = "ingested"
    /\ UNCHANGED <<sections, win, comp, summary_rows, aux>>

\* main.run_pipeline: clean tickers, classify, recompute weights
run_pipeline_weights ==
    /\ pc = "ingested"
    /\ \E name_map \in NameMapChoices :
          holdings' = calculate_weights(classify(clean_tickers(holdings), name_map))
    /\ pc' = "weighted"
    /\ UNCHANGED <<sections, total_nav, settled_cash, win, comp, summary_rows, aux>>

\* main.run_pipeline: the asset allocation summary
run_pipeline_summary ==
    /\ pc = "weighted"
    /\ summary_rows' = build_summary_rows(holdings)
    /\ pc' = "summarised"
    /\ UNCHANGED <<sections, holdings, total_nav, settled_cash, win, comp, aux>>

Next == get_portfolio_holdings \/ run_pipeline_weights \/ run_pipeline_summary

Spec == Init /\ [][Next]_vars

(***************************************************************************)
(* Reconciliation properties                                               *)
(***************************************************************************)
Range(f) == { f[i] : i \in DOMAIN f }

Reconciled == pc \in {"ingested", "weighted"}

TotalMarketValue == SumRawValue(holdings)

\* the valid tickers of the three source tables of the statement
PositionTickers == { r.Symbol : r \in { x \in Range(sections.open_positions) : is_valid_ticker(x.Symbol) } }
DividendTickers == { r.Symbol : r \in { x \in Range(sections.dividends) : is_valid_ticker(x.Symbol) } }
PerfTickers == { r.Symbol : r \in { x \in Range(sections.perf_by_symbol) : is_valid_ticker(x.Symbol) } }
SourceTickers == PositionTickers \cup DividendTickers \cup PerfTickers

RowsOfTicker(t) == { i \in 1..Len(holdings) : holdings[i].ticker = t }

IsAccrualsRow(r) == str_upper(r.ticker) = str_upper(ACCRUALS)

\* reported total - market value of the non-cash instruments - settled cash
Discrepancy ==
    total_nav
    - SumRawValue(SelectSeq(holdings, LAMBDA r : str_upper(str_strip(r.ticker)) # USD))
    - settled_cash

\* C1: after reconciliation the market values of all instrument records sum
\* to the reported total net value (EndingNAV) to within $0.01 (1 cent).
C1_SumToTotal ==
    pc = "ingested" => Abs(TotalMarketValue - total_nav) <= 1

\* C4: a discrepancy above $1 (100 cents) yields an Accruals row whose cost basis and
\* market value both equal the discrepancy; a discrepancy of at most $1
\* adds no Accruals row.
C4_AccrualsRow ==
    pc = "ingested" =>
        IF Abs(Discrepancy) > 100
        THEN \E i \in 1..Len(holdings) :
                /\ IsAccrualsRow(holdings[i])
                /\ holdings[i].raw_value = Discrepancy
                /\ holdings[i].avg_cost = Discrepancy
        ELSE \A i \in 1..Len(holdings) :
                IsAccrualsRow(holdings[i]) => holdings[i].ticker \in PositionTickers

WeightOf(r) == IF pc = "weighted" THEN r.weight ELSE r.avg_weight

Weights == [i \in 1..Len(holdings) |-> WeightOf(holdings[i])]

\* C2 as stated: the weights of every non-empty reconciled table sum to 1.
C2_WeightsSumToOne_AnyTable ==
    (Reconciled /\ holdings # <<>>) => RatSumSeq(Weights) = Rat(1, 1)

\* C2 (amended): when the total market value of the final holding set is
\* not zero, every weight is market_value / total_market_value and the
\* weights sum to 1; when the total is zero every weight is 0.
C2_WeightsSumToOne ==
    (Reconciled /\ holdings # <<>>) =>
        IF TotalMarketValue # 0
        THEN /\ RatSumSeq(Weights) = Rat(1, 1)
             /\ \A i \in 1..Len(holdings) :
                    WeightOf(holdings[i]) = Rat(holdings[i].raw_value, TotalMarketValue)
        ELSE \A i \in 1..Len(holdings) : WeightOf(holdings[i]) = Rat(0, 1)

\* a final table of several rows, at least one row filtered out before the
\* weights were recomputed
C2_Witness ==
    /\ pc = "weighted"
    /\ Len(holdings) >= 2
    /\ Len(holdings) < Len(process_holdings_from_data(sections))
    /\ TotalMarketValue # 0

RawDividends(t) ==
    LET g == SelectSeq(sections.dividends, LAMBDA r : r.Symbol = t)
    IN  SumSeq([i \in 1..Len(g) |-> _coerce_float(g[i].Amount).v])

RawRealized(t) ==
    LET g == SelectSeq(sections.perf_by_symbol, LAMBDA r : r.Symbol = t)
    IN  SumSeq([i \in 1..Len(g) |-> _coerce_float(g[i].RealizedPL).v])

OnePerSourceTicker ==
    /\ \A t \in SourceTickers : Cardinality(RowsOfTicker(t)) = 1
    /\ \A i \in 1..Len(holdings) : holdings[i].ticker \in SourceTickers

\* C5 as stated: the holdings table, also the one run_pipeline keeps, has
\* exactly one record per distinct valid ticker of the three tables.
C5_OnePerTicker_FinalTable == Reconciled => OnePerSourceTicker

\* C5 (amended): the table produced by process_holdings_from_data has
\* exactly one record per distinct valid ticker of the three tables, each
\* carrying its dividends and realized gain; run_pipeline then keeps exactly
\* the records whose |market value| exceeds 0.01 and whose ticker is not on
\* an ignore list, so a ticker without a current position is not in the
\* final table.
C5_OnePerTicker ==
    /\ pc = "ingested" =>
          /\ OnePerSourceTicker
          /\ \A i \in 1..Len(holdings) :
                /\ holdings[i].total_dividends = RawDividends(holdings[i].ticker)
                /\ holdings[i].realized_pl = RawRealized(holdings[i].ticker)
    /\ pc = "weighted" =>
          LET before == process_holdings_from_data(sections)
          IN  /\ \A i \in 1..Len(before) :
                    KeptByCleanTickers(before[i]) <=> RowsOfTicker(before[i].ticker) # {}
              /\ \A t \in SourceTickers : Cardinality(RowsOfTicker(t)) <= 1
              /\ \A i \in 1..Len(holdings) : Abs(holdings[i].raw_value) > ZeroValueCutoff

\* a ticker with dividend history and no position is in the engine's table
C5_Witness ==
    /\ pc = "ingested"
    /\ \E t \in DividendTickers \ PositionTickers :
          \E i \in RowsOfTicker(t) : holdings[i].total_dividends # 0 /\ holdings[i].raw_value = 0
    /\ PositionTickers # {}

(***************************************************************************)
(* Dates (yyyymmdd) and pandas DateOffset                                  *)
(***************************************************************************)
Year(d) == d \div 10000
Month(d) == (d \div 100) % 100
Day(d) == d % 100
MkDate(y, m, d) == y * 10000 + m * 100 + d

IsLeap(y) == (y % 4 = 0 /\ y % 100 # 0) \/ y % 400 = 0

DaysInMonth(y, m) ==
    IF m = 2 THEN (IF IsLeap(y) THEN 29 ELSE 28)
    ELSE IF m \in {4, 6, 9, 11} THEN 30 ELSE 31

\* d - pd.DateOffset(months=n): the day is clamped to the end of the month
months_before(d, n) ==
    LET total == Year(d) * 12 + (Month(d) - 1) - n
        y     == total \div 12
        m     == (total % 12) + 1
        dim   == DaysInMonth(y, m)
    IN  MkDate(y, m, IF Day(d) > dim THEN dim ELSE Day(d))

\* d - pd.DateOffset(years=n)
years_before(d, n) == months_before(d, 12 * n)

\* mutant: the missing values are kept
dropna_keeps_missing(s) == s

(***************************************************************************)
(* Value series: observations [date, nav, nan], nan marking a missing nav  *)
(***************************************************************************)
dropna(s) == SelectSeq(s, LAMBDA o : ~o.nan)

RECURSIVE sort_by_date(_)
\* sort_index() / sort_values('date')
sort_by_date(s) ==
    IF s = <<>> THEN <<>>
    ELSE LET x    == s[Len(s)]
             init == sort_by_date(SubSeq(s, 1, Len(s) - 1))
             lo   == SelectSeq(init, LAMBDA o : o.date <= x.date)
             hi   == SelectSeq(init, LAMBDA o : o.date > x.date)
         IN  lo \o <<x>> \o hi

\* df[df['date'] <= d]
up_to(s, d) == SelectSeq(s, LAMBDA o : o.date <= d)

\* results of a return computation: a value, None, NaN or an exception
Val(r) == [k |-> "val", r |-> r]
NoneResult == [k |-> "none", r |-> Rat(0, 1)]
NaNResult == [k |-> "nan", r |-> Rat(0, 1)]
Raised == [k |-> "raise", r |-> Rat(0, 1)]

\* (end / start) - 1.0 on Python floats: ZeroDivisionError for start = 0
py_return(end_price, start_price) ==
    IF start_price = 0 THEN Raised ELSE Val(Rat(end_price - start_price, start_price))

\* Series.asof(d) on a sorted series: the last non-missing value at or before
\* d, NaN when there is none
asof(s, d) ==
    LET upto == dropna(up_to(s, d))
    IN  IF upto = <<>> THEN [nan |-> TRUE, nav |-> 0]
        ELSE [nan |-> FALSE, nav |-> upto[Len(upto)].nav]

(***************************************************************************)
(* return_metrics.get_cumulative_return (report_metrics has the same body) *)
(***************************************************************************)
Window(kind, n, date) == [kind |-> kind, n |-> n, date |-> date]

\* the start date of a YTD, <n>Y or <n>M window ending at end_date
window_start_date(end_date, w) ==
    IF w.kind = "YTD" THEN MkDate(Year(end_date), 1, 1)
    ELSE IF w.kind = "Y" THEN years_before(end_date, w.n)
    ELSE months_before(end_date, w.n)

\* mutant: the series is not put in date order
get_cumulative_return_unsorted(series, w) ==
    IF series = <<>> THEN Val(Rat(0, 1))
    ELSE LET s == dropna(series)
         IN  IF s = <<>> THEN Raised
             ELSE LET end_price   == s[Len(s)].nav
                      end_date    == s[Len(s)].date
                      first_price == s[1].nav
                  IN  IF w.kind \notin {"YTD", "Y", "M"}
                      THEN py_return(end_price, first_price)
                      ELSE LET resolved    == window_start_date(end_date, w)
                               start_date  == IF resolved < s[1].date THEN s[1].date ELSE resolved
                               found       == asof(s, start_date)
                               start_price == IF found.nan \/ found.nav = 0 THEN first_price
                                              ELSE found.nav
                           IN  py_return(end_price, start_price)

get_cumulative_return(series, w) ==
    IF series = <<>> THEN Val(Rat(0, 1))
    ELSE LET s == sort_by_date(dropna(series))
         IN  IF s = <<>> THEN Raised
             ELSE LET end_price   == s[Len(s)].nav
                      end_date    == s[Len(s)].date
                      first_price == s[1].nav
                  IN  IF w.kind \notin {"YTD", "Y", "M"}
                      THEN py_return(end_price, first_price)
                      ELSE LET resolved    == window_start_date(end_date, w)
                               start_date  == IF resolved < s[1].date THEN s[1].date ELSE resolved
                               found       == asof(s, start_date)
                               start_price == IF found.nan \/ found.nav = 0 THEN first_price
                                              ELSE found.nav
                           IN  py_return(end_price, start_price)

(***************************************************************************)
(* portfolio_analytics.get_cumulative_return                               *)
(***************************************************************************)
pa_get_cumulative_return(prices, w) ==
    IF prices = <<>> THEN Val(Rat(0, 1))
    ELSE LET s == sort_by_date(dropna(prices))
         IN  IF s = <<>> THEN Val(Rat(0, 1))
             ELSE IF w.kind = "OTHER" THEN Raised
             ELSE LET end_price   == s[Len(s)].nav
                      end_date    == s[Len(s)].date
                      resolved    == IF w.kind = "INCEPTION" THEN s[1].date
                                     ELSE IF w.kind = "SINCE" THEN w.date
                                     ELSE window_start_date(end_date, w)
                      start_date  == IF resolved < s[1].date THEN s[1].date ELSE resolved
                      found       == asof(s, start_date)
                      start_price == IF found.nan \/ found.nav = 0 THEN s[1].nav ELSE found.nav
                  IN  py_return(end_price, start_price)

(***************************************************************************)
(* return_metrics.calculate_period_returns                                 *)
(***************************************************************************)
Labels == {"Period", "1M", "3M", "6M", "YTD", "1Y", "3Y", "Inception"}

\* the window of a label of the result dictionary
LabelWindow(label) ==
    IF label = "1M" THEN Window("M", 1, 0)
    ELSE IF label = "3M" THEN Window("M", 3, 0)
    ELSE IF label = "6M" THEN Window("M", 6, 0)
    ELSE IF label = "YTD" THEN Window("YTD", 0, 0)
    ELSE IF label = "1Y" THEN Window("Y", 1, 0)
    ELSE Window("Y", 3, 0)

\* mutant: no clamp to the first observation, None before it
get_nav_at_unclamped(df, target_date) ==
    LET subset == up_to(df, target_date)
    IN  IF subset = <<>> THEN [date |-> target_date, nav |-> 0, nan |-> FALSE]
        ELSE subset[Len(subset)]

\* the observation holding the nav in force at target_date
get_nav_at(df, target_date) ==
    IF target_date < df[1].date THEN df[1]
    ELSE LET subset == up_to(df, target_date) IN subset[Len(subset)]

\* calc(start, end) on two observations
calc(start, end) ==
    IF start.nan THEN NaNResult
    ELSE IF start.nav = 0 THEN NoneResult
    ELSE IF end.nan THEN NaNResult
    ELSE Val(Rat(end.nav - start.nav, start.nav))

\* mutant: the windows are counted back from the last observation
calculate_period_returns_from_last(daily_nav_df, current_date) ==
    LET df == up_to(sort_by_date(daily_nav_df), current_date)
    IN  IF df = <<>> THEN [l \in Labels |-> NoneResult]
        ELSE LET end_val == df[Len(df)]
             IN  [l \in Labels |->
                    IF l \in {"Period", "Inception"} THEN calc(df[1], end_val)
                    ELSE calc(get_nav_at(df, window_start_date(end_val.date, LabelWindow(l))),
                              end_val)]

calculate_period_returns(daily_nav_df, current_date) ==
    LET df == up_to(sort_by_date(daily_nav_df), current_date)
    IN  IF df = <<>> THEN [l \in Labels |-> NoneResult]
        ELSE LET end_val == df[Len(df)]
             IN  [l \in Labels |->
                    IF l \in {"Period", "Inception"} THEN calc(df[1], end_val)
                    ELSE calc(get_nav_at(df, window_start_date(current_date, LabelWindow(l))),
                              end_val)]

(***************************************************************************)
(* run_pipeline: portfolio and benchmark window returns                    *)
(***************************************************************************)
\* window_returns of the portfolio; quarter is CumulativeReturn / 100
portfolio_windows(history, rd_date, quarter) ==
    LET daily_history  == up_to(sort_by_date(history), rd_date)
        window_returns == calculate_period_returns(daily_history, rd_date)
        first_val      == daily_history[1]
        last_val       == daily_history[Len(daily_history)]
        inception      == IF first_val.nan THEN NaNResult
                          ELSE IF first_val.nav = 0 THEN Val(Rat(0, 1))
                          ELSE IF last_val.nan THEN NaNResult
                          ELSE Val(Rat(last_val.nav - first_val.nav, first_val.nav))
    IN  [l \in Labels \cup {"Quarter"} |->
            IF l = "Quarter" THEN Val(Rat(quarter, 10000))
            ELSE IF l = "Inception" /\ daily_history # <<>> THEN inception
            ELSE window_returns[l]]

get_exact_ret(nav_series, start_dt, end_dt) ==
    LET val_start == asof(nav_series, start_dt)
        val_end   == asof(nav_series, end_dt)
    IN  IF val_start.nan \/ val_end.nan \/ val_start.nav = 0 THEN Val(Rat(0, 1))
        ELSE Val(Rat(val_end.nav - val_start.nav, val_start.nav))

\* bench_windows of the benchmark index bench_nav_df
benchmark_windows(bench_nav_df, history, qs_date, rd_date) ==
    LET daily_history == up_to(sort_by_date(history), rd_date)
        bench_windows == calculate_period_returns(bench_nav_df, rd_date)
    IN  [l \in Labels |->
            IF bench_nav_df # <<>> /\ l = "Period"
            THEN get_exact_ret(bench_nav_df, qs_date, rd_date)
            ELSE IF bench_nav_df # <<>> /\ l = "Inception" /\ daily_history # <<>>
            THEN get_exact_ret(bench_nav_df, daily_history[1].date, rd_date)
            ELSE bench_windows[l]]

(***************************************************************************)
(* Value series the window calculator is run on                            *)
(***************************************************************************)
ObsDateChoices == {20230630, 20240101, 20240401, 20240701}
NavChoices == {0, 100, 110, 121}
ReportDateChoices == {20230101, 20240401, 20240701, 20241231}
QuarterStartChoices == {20240101, 20240401}
QuarterReturnChoices == { <<"3",".","0","7">> }

Observations ==
    [date : ObsDateChoices, nav : NavChoices, nan : {FALSE}]
        \cup [date : ObsDateChoices, nav : {0}, nan : {TRUE}]

\* series of at most MaxObs observations, no date twice
SeriesChoices ==
    { s \in BSeq(Observations, MaxObs) :
        \A i, j \in 1..Len(s) : i # j => s[i].date # s[j].date }

WindowChoices ==
    { Window("INCEPTION", 0, 0), Window("YTD", 0, 0), Window("M", 1, 0), Window("M", 3, 0),
      Window("M", 6, 0), Window("Y", 1, 0), Window("Y", 3, 0),
      Window("SINCE", 0, 20240401), Window("SINCE", 0, 20230101), Window("OTHER", 0, 0) }

IsSorted(s) == \A i \in 1..(Len(s) - 1) : s[i].date < s[i + 1].date

EmptyStatement ==
    [open_positions |-> <<>>, dividends |-> <<>>, perf_by_symbol |-> <<>>, key_statistics |-> <<>>]

WindowInit ==
    /\ pc = "windows"
    /\ sections = EmptyStatement
    /\ holdings = <<>>
    /\ total_nav = 0
    /\ settled_cash = 0
    /\ comp = Idle
    /\ summary_rows = <<>>
    /\ AuxIdle
    /\ \E s \in SeriesChoices : win = [op |-> "series", series |-> s]

\* return_metrics.get_cumulative_return on the series
call_get_cumulative_return ==
    /\ win.op = "series"
    /\ \E w \in WindowChoices :
          win' = [op |-> "get_cumulative_return", series |-> win.series, window |-> w,
                  out |-> get_cumulative_return(win.series, w)]
    /\ UNCHANGED <<pc, sections, holdings, total_nav, settled_cash, comp, summary_rows, aux>>

\* portfolio_analytics.get_cumulative_return on the series
call_pa_get_cumulative_return ==
    /\ win.op = "series"
    /\ \E w \in WindowChoices :
          win' = [op |-> "pa_get_cumulative_return", series |-> win.series, window |-> w,
                  out |-> pa_get_cumulative_return(win.series, w)]
    /\ UNCHANGED <<pc, sections, holdings, total_nav, settled_cash, comp, summary_rows, aux>>

\* return_metrics.calculate_period_returns on the series
call_calculate_period_returns ==
    /\ win.op = "series"
    /\ \E rd \in ReportDateChoices :
          win' = [op |-> "calculate_period_returns", series |-> win.series, report_date |-> rd,
                  out |-> calculate_period_returns(win.series, rd)]
    /\ UNCHANGED <<pc, sections, holdings, total_nav, settled_cash, comp, summary_rows, aux>>

\* main.run_pipeline with the series as the portfolio history and as the
\* benchmark index (the market-data provider delivers series in date order)
run_pipeline_windows ==
    /\ win.op = "series"
    /\ IsSorted(win.series)
    /\ \E qs \in QuarterStartChoices, rd \in ReportDateChoices, q \in QuarterReturnChoices :
          /\ qs <= rd
          /\ win' = [op |-> "run_pipeline", series |-> win.series,
                     qs_date |-> qs, report_date |-> rd,
                     portfolio |-> portfolio_windows(win.series, rd, _coerce_float(q).v),
                     benchmark |-> benchmark_windows(win.series, win.series, qs, rd)]
    /\ UNCHANGED <<pc, sections, holdings, total_nav, settled_cash, comp, summary_rows, aux>>

WindowNext ==
    \/ call_get_cumulative_return
    \/ call_pa_get_cumulative_return
    \/ call_calculate_period_returns
    \/ run_pipeline_windows

SpecWindow == WindowInit /\ [][WindowNext]_vars

(***************************************************************************)
(* Window calculator properties                                            *)
(***************************************************************************)
Earliest(s) == CHOOSE o \in Range(s) : \A q \in Range(s) : o.date <= q.date
Latest(s) == CHOOSE o \in Range(s) : \A q \in Range(s) : q.date <= o.date

NoMissing(s) == \A i \in 1..Len(s) : ~s[i].nan
NoZero(s) == \A i \in 1..Len(s) : s[i].nav # 0

\* the observations of s dated at or before d
Until(s, d) == { o \in Range(s) : o.date <= d }

Undefined == [k |-> "undefined", r |-> Rat(0, 1)]

\* (last / first) - 1 where it is a number
Ratio(last, first) ==
    IF last.nan \/ first.nan \/ first.nav = 0 THEN Undefined
    ELSE Val(Rat(last.nav - first.nav, first.nav))

IsCumulativeReturnCall == win.op \in {"get_cumulative_return", "pa_get_cumulative_return"}

Resolving == {"YTD", "Y", "M"}

\* C7: a window whose resolved start date is earlier than the series' first
\* observation returns what INCEPTION returns for the same series.
C7_ClampIsInception ==
    /\ (win.op = "get_cumulative_return" /\ dropna(win.series) # <<>>) =>
          LET s == dropna(win.series)
              w == win.window
          IN  (\/ w.kind \in Resolving /\ window_start_date(Latest(s).date, w) < Earliest(s).date
               \/ w.kind = "SINCE" /\ w.date < Earliest(s).date)
              => win.out = get_cumulative_return(win.series, Window("INCEPTION", 0, 0))
    /\ (win.op = "pa_get_cumulative_return" /\ dropna(win.series) # <<>>) =>
          LET s == dropna(win.series)
              w == win.window
          IN  (\/ w.kind \in Resolving /\ window_start_date(Latest(s).date, w) < Earliest(s).date
               \/ w.kind = "SINCE" /\ w.date < Earliest(s).date)
              => win.out = pa_get_cumulative_return(win.series, Window("INCEPTION", 0, 0))
    /\ (win.op = "calculate_period_returns" /\ Until(win.series, win.report_date) # {}) =>
          LET first == CHOOSE o \in Until(win.series, win.report_date) :
                          \A q \in Until(win.series, win.report_date) : o.date <= q.date
          IN  \A l \in Labels \ {"Period", "Inception"} :
                 window_start_date(win.report_date, LabelWindow(l)) < first.date
                    => win.out[l] = win.out["Inception"]

\* a clamped window beside a window that is not clamped and differs
C7_Witness ==
    /\ win.op = "calculate_period_returns"
    /\ win.series # <<>>
    /\ window_start_date(win.report_date, LabelWindow("1Y")) < Earliest(win.series).date
    /\ win.out["1Y"].k = "val"
    /\ win.out["1Y"].r # Rat(0, 1)
    /\ win.out["1M"].k = "val"
    /\ win.out["1M"] # win.out["1Y"]

\* the calendar date n months before anchor: same day of the month, or the
\* last day of that month when it is shorter
MonthsBack(anchor, n) ==
    LET idx == Year(anchor) * 12 + Month(anchor) - 1 - n
        y   == idx \div 12
        m   == (idx % 12) + 1
        day == CHOOSE d \in 1..31 :
                  /\ d <= DaysInMonth(y, m)
                  /\ d <= Day(anchor)
                  /\ \A e \in 1..31 : (e <= DaysInMonth(y, m) /\ e <= Day(anchor)) => e <= d
    IN  y * 10000 + m * 100 + day

\* the start of a window counted back from anchor
StartFrom(anchor, w) ==
    IF w.kind = "YTD" THEN Year(anchor) * 10000 + 101
    ELSE IF w.kind = "Y" THEN MonthsBack(anchor, 12 * w.n)
    ELSE MonthsBack(anchor, w.n)

\* the return of window w of the observations obs (no zero, no missing
\* value) when the window is counted back from anchor
ReturnFrom(obs, w, anchor) ==
    LET first == CHOOSE o \in obs : \A q \in obs : o.date <= q.date
        last  == CHOOSE o \in obs : \A q \in obs : q.date <= o.date
        start == IF StartFrom(anchor, w) < first.date THEN first.date ELSE StartFrom(anchor, w)
        from  == CHOOSE o \in obs :
                    o.date <= start /\ \A q \in obs : q.date <= start => q.date <= o.date
    IN  Val(Rat(last.nav - from.nav, from.nav))

Plain(s) == s # <<>> /\ NoMissing(s) /\ NoZero(s)

ExampleSeries ==
    << [date |-> 20240101, nav |-> 100, nan |-> FALSE],
       [date |-> 20240401, nav |-> 110, nan |-> FALSE],
       [date |-> 20240701, nav |-> 121, nan |-> FALSE] >>

\* C8 as stated: in get_cumulative_return and in calculate_period_returns,
\* for any report date, a window is counted back from the last date of the
\* series (Jan 1 of its year for YTD).
C8_StartFromSeriesLastDate ==
    /\ (win.op = "get_cumulative_return" /\ Plain(win.series) /\ win.window.kind \in Resolving) =>
          win.out = ReturnFrom(Range(win.series), win.window, Latest(win.series).date)
    /\ (win.op = "calculate_period_returns" /\ Plain(win.series)) =>
          \A l \in Labels \ {"Period", "Inception"} :
             win.out[l] = ReturnFrom(Range(win.series), LabelWindow(l), Latest(win.series).date)

\* C8 (amended): get_cumulative_return counts a window back from the last
\* date of the series; calculate_period_returns counts it back from the
\* report date (Jan 1 of the report date's year for YTD) and measures the
\* observations dated at or before the report date, which is the same
\* whenever the last observation is dated on the report date.  For the
\* series 100 @ Jan 1, 110 @ Apr 1, 121 @ Jul 1 and report date Jul 1 the
\* YTD return is 0.21 in both.
C8_StartFromAnchor ==
    /\ (win.op = "get_cumulative_return" /\ Plain(win.series) /\ win.window.kind \in Resolving) =>
          win.out = ReturnFrom(Range(win.series), win.window, Latest(win.series).date)
    /\ (win.op = "calculate_period_returns" /\ Plain(win.series)
            /\ Until(win.series, win.report_date) # {}) =>
          \A l \in Labels \ {"Period", "Inception"} :
             win.out[l] = ReturnFrom(Until(win.series, win.report_date), LabelWindow(l),
                                     win.report_date)
    /\ (win.op = "get_cumulative_return" /\ win.series = ExampleSeries /\ win.window.kind = "YTD") =>
          win.out = Val(Rat(21, 100))
    /\ (win.op = "calculate_period_returns" /\ win.series = ExampleSeries
            /\ win.report_date = 20240701) =>
          win.out["YTD"] = Val(Rat(21, 100))

\* a report date after the last observation, where counting back from the
\* report date and from the last observation give different returns
C8_Witness ==
    /\ win.op = "calculate_period_returns"
    /\ Plain(win.series)
    /\ Latest(win.series).date < win.report_date
    /\ \E l \in Labels \ {"Period", "Inception"} :
          ReturnFrom(Range(win.series), LabelWindow(l), Latest(win.series).date)
             # ReturnFrom(Range(win.series), LabelWindow(l), win.report_date)

\* C9: the same value series gives the same return for every window label
\* through the portfolio path and through the benchmark path of
\* run_pipeline, 'Period' and 'Inception' included.
C9_SameRuleBothPaths ==
    win.op = "run_pipeline" => \A l \in Labels : win.portfolio[l] = win.benchmark[l]

(***************************************************************************)
(* return_metrics.calculate_composite_benchmark_return                     *)
(* A return is an integer number of 1/1000, a weight a number of tenths,   *)
(* a composite return a number of 1/10000.                                 *)
(***************************************************************************)
\* benchmark_returns_df.empty: no row or no column
df_empty(df) == df.index = <<>> \/ df.columns = {}

\* df[ticker].fillna(0.0) * weight at row i
weighted_cell(df, i, ticker, weight) ==
    IF df.data[i][ticker].nan THEN 0 ELSE df.data[i][ticker].v * weight

RECURSIVE composite_loop(_, _, _)
\* the loop over weights.items(), from the zero series
composite_loop(df, items, i) ==
    IF items = <<>> THEN 0
    ELSE LET rest == composite_loop(df, SubSeq(items, 1, Len(items) - 1), i)
             item == items[Len(items)]
         IN  IF item.ticker \in df.columns
             THEN rest + weighted_cell(df, i, item.ticker, item.weight)
             ELSE rest

\* mutant: a ticker with a missing observation is left out on every date
calculate_composite_benchmark_return_excluding(df, weights) ==
    IF df_empty(df) THEN [index |-> <<>>, values |-> <<>>]
    ELSE LET complete == SelectSeq(weights, LAMBDA item :
                            item.ticker \in df.columns
                               => \A i \in 1..Len(df.index) : ~df.data[i][item.ticker].nan)
         IN  [index |-> df.index,
              values |-> [i \in 1..Len(df.index) |-> composite_loop(df, complete, i)]]

calculate_composite_benchmark_return(df, weights) ==
    IF df_empty(df) THEN [index |-> <<>>, values |-> <<>>]
    ELSE [index |-> df.index,
          values |-> [i \in 1..Len(df.index) |-> composite_loop(df, weights, i)]]

\* the selectable composite benchmarks of main.py
COMPOSITE_BENCHMARK_CONFIG ==
    { << [ticker |-> "SPY", weight |-> 10] >>,
      << [ticker |-> "AGG", weight |-> 10] >>,
      << [ticker |-> "SPY", weight |-> 6], [ticker |-> "AGG", weight |-> 4] >>,
      << [ticker |-> "SPY", weight |-> 4], [ticker |-> "AGG", weight |-> 6] >> }

\* a weight map that does not sum to 1 and names a ticker without a column
OtherWeights == { << [ticker |-> "SPY", weight |-> 6], [ticker |-> "ACWI", weight |-> 6] >> }

ReturnCells == { [nan |-> FALSE, v |-> 10], [nan |-> FALSE, v |-> -5], [nan |-> TRUE, v |-> 0] }

ColumnChoices == { {"SPY"}, {"AGG"}, {"SPY", "AGG"} }

\* the i-th trading date of the table
TradingDate(i) == 20240101 + i

ReturnTables ==
    UNION { UNION { { [index |-> [i \in 1..k |-> TradingDate(i)], columns |-> cols, data |-> d] :
                        d \in [1..k -> [cols -> ReturnCells]] } :
                    cols \in ColumnChoices } :
            k \in 0..MaxDates }
        \cup { [index |-> <<>>, columns |-> {}, data |-> <<>>] }

CompositeInit ==
    /\ pc = "composite"
    /\ sections = EmptyStatement
    /\ holdings = <<>>
    /\ total_nav = 0
    /\ settled_cash = 0
    /\ win = Idle
    /\ summary_rows = <<>>
    /\ AuxIdle
    /\ \E df \in ReturnTables, w \in COMPOSITE_BENCHMARK_CONFIG \cup OtherWeights :
          comp = [op |-> "input", df |-> df, weights |-> w]

call_calculate_composite_benchmark_return ==
    /\ comp.op = "input"
    /\ comp' = [op |-> "composite", df |-> comp.df, weights |-> comp.weights,
                out |-> calculate_composite_benchmark_return(comp.df, comp.weights)]
    /\ UNCHANGED <<pc, sections, holdings, total_nav, settled_cash, win, summary_rows, aux>>

\* a * b in lowest terms, cancelling before the multiplication
RatMul(a, b) ==
    LET g1 == Gcd(Abs(a.n), b.d)
        g2 == Gcd(Abs(b.n), a.d)
    IN  Rat((a.n \div g1) * (b.n \div g2), (a.d \div g2) * (b.d \div g1))

\* a return cell of a series: missing, or the exact return r
ReturnCell(nan, n, d) == [nan |-> nan, r |-> Rat(n, d)]

\* returns_df.fillna(0.0)
fillna_zero(returns) ==
    [i \in 1..Len(returns) |-> IF returns[i].nan THEN Rat(0, 1) ELSE returns[i].r]

RECURSIVE cumprod(_)
\* (1 + clean_returns).cumprod() on returns without missing values
cumprod(clean_returns) ==
    IF clean_returns = <<>> THEN <<>>
    ELSE LET init   == cumprod(SubSeq(clean_returns, 1, Len(clean_returns) - 1))
             factor == RatAdd(Rat(1, 1), clean_returns[Len(clean_returns)])
         IN  IF init = <<>> THEN << factor >>
             ELSE Append(init, RatMul(init[Len(init)], factor))

RECURSIVE cumsum(_)
cumsum(clean_returns) ==
    IF clean_returns = <<>> THEN <<>>
    ELSE LET init == cumsum(SubSeq(clean_returns, 1, Len(clean_returns) - 1))
         IN  IF init = <<>> THEN << clean_returns[1] >>
             ELSE Append(init, RatAdd(init[Len(init)], clean_returns[Len(clean_returns)]))

\* mutant: the index grows by the sum of the returns, not compounded
get_cumulative_index_simple(returns_df, start_value) ==
    LET sums == cumsum(fillna_zero(returns_df))
    IN  [i \in 1..Len(sums) |->
            [nan |-> FALSE, v |-> RatMul(Rat(start_value, 1), RatAdd(Rat(1, 1), sums[i]))]]

\* return_metrics.get_cumulative_index (report_metrics has the same body)
\* on one column; the empty DataFrame of an empty input is <<>>
get_cumulative_index(returns_df, start_value) ==
    LET growth_factors == cumprod(fillna_zero(returns_df))
    IN  [i \in 1..Len(growth_factors) |->
            [nan |-> FALSE, v |-> RatMul(Rat(start_value, 1), growth_factors[i])]]

\* (1 + series).cumprod() * 100 of run_pipeline: cumprod skips a missing
\* value and leaves it missing in the result
bench_nav_df(series) ==
    LET growth == cumprod(fillna_zero(series))
    IN  [i \in 1..Len(series) |->
            IF series[i].nan THEN [nan |-> TRUE, v |-> Rat(0, 1)]
            ELSE [nan |-> FALSE, v |-> RatMul(growth[i], Rat(100, 1))]]

\* the composite series as return cells (a composite return is a number
\* of 1/10000)
composite_cells(out) == [i \in 1..Len(out.values) |-> ReturnCell(FALSE, out.values[i], 10000)]

\* one column of the table as return cells (a return is a number of 1/1000)
column_cells(df, ticker) ==
    [i \in 1..Len(df.index) |-> ReturnCell(df.data[i][ticker].nan, df.data[i][ticker].v, 1000)]

\* main.run_pipeline: the growth of the constituents from 100, and the
\* benchmark index of the composite series
run_pipeline_benchmark_index ==
    /\ comp.op = "composite"
    /\ comp' = [op |-> "index", df |-> comp.df, weights |-> comp.weights, out |-> comp.out,
                bench_growth_period |->
                    IF df_empty(comp.df) THEN <<>>
                    ELSE [t \in comp.df.columns |->
                             get_cumulative_index(column_cells(comp.df, t), 100)],
                nav |-> bench_nav_df(composite_cells(comp.out))]
    /\ UNCHANGED <<pc, sections, holdings, total_nav, settled_cash, win, summary_rows, aux>>

CompositeNext == call_calculate_composite_benchmark_return \/ run_pipeline_benchmark_index

SpecComposite == CompositeInit /\ [][CompositeNext]_vars

WeightOfTicker(weights, t) ==
    (CHOOSE item \in Range(weights) : item.ticker = t).weight

RECURSIVE WeightedSum(_, _, _, _)
\* the sum over the tickers ts of weight x return at row i, a missing
\* observation counting as 0
WeightedSum(df, weights, ts, i) ==
    IF ts = {} THEN 0
    ELSE LET t == CHOOSE x \in ts : TRUE
         IN  (IF df.data[i][t].nan THEN 0 ELSE WeightOfTicker(weights, t) * df.data[i][t].v)
                + WeightedSum(df, weights, ts \ {t}, i)

WeightedTickers(df, weights) == { item.ticker : item \in Range(weights) } \cap df.columns

\* C10: the composite series has, for every date of the table, the sum over
\* the weight map's tickers of weight x return, a missing observation
\* contributing 0 on its date only; {SPY: 0.6, AGG: 0.4} on returns 0.01 and
\* -0.005 gives 0.004.
C10_CompositeIsWeightedSum ==
    comp.op = "composite" =>
        /\ comp.out.index = comp.df.index
        /\ Len(comp.out.values) = Len(comp.df.index)
        /\ \A i \in 1..Len(comp.out.index) :
              /\ comp.out.values[i]
                    = WeightedSum(comp.df, comp.weights, WeightedTickers(comp.df, comp.weights), i)
              /\ (/\ comp.weights = << [ticker |-> "SPY", weight |-> 6], [ticker |-> "AGG", weight |-> 4] >>
                  /\ comp.df.columns = {"SPY", "AGG"}
                  /\ comp.df.data[i]["SPY"] = [nan |-> FALSE, v |-> 10]
                  /\ comp.df.data[i]["AGG"] = [nan |-> FALSE, v |-> -5])
                 => comp.out.values[i] = 40

\* a ticker missing on one date and present on another, both weighted
C10_Witness ==
    /\ comp.op = "composite"
    /\ Len(comp.df.index) >= 2
    /\ \E t \in WeightedTickers(comp.df, comp.weights) :
          \E i, j \in 1..Len(comp.df.index) :
             /\ comp.df.data[i][t].nan
             /\ ~comp.df.data[j][t].nan
             /\ comp.out.values[j] # 0
    /\ Cardinality(WeightedTickers(comp.df, comp.weights)) = 2

(***************************************************************************)
(* statement_ingestion.read_quarter_statement_csv: the record reader       *)
(*                                                                         *)
(* A file is the sequence of rows csv.reader yields, a row a sequence of   *)
(* cells.  headers is a set of [section, cols], rows maps a section to its *)
(* list of row dicts (functions from column name to cell), metainfo is a   *)
(* set of [section, key, val].                                             *)
(***************************************************************************)
MaxRecords == 4

SECTION_HEADER == <<"H","e","a","d","e","r">>
SECTION_DATA == <<"D","a","t","a">>
SECTION_META == <<"M","e","t","a","I","n","f","o">>

POS == <<"P","o","s">>
DIV == <<"D","i","v">>
SectionNames == {POS, DIV}

\* [cell.strip() for cell in raw_row[2:]]
stripped_tail(raw_row) ==
    [i \in 1..(Len(raw_row) - 2) |-> str_strip(raw_row[i + 2])]

\* raw_row[0].strip()
section_of(raw_row) == str_strip(raw_row[1])

\* raw_row[1].strip() if len(raw_row) > 1 else ""
record_type_of(raw_row) == IF Len(raw_row) > 1 THEN str_strip(raw_row[2]) ELSE <<>>

\* headers.get(section); None and [] are both falsy and are both <<>> here
headers_get(headers, section) ==
    IF \E h \in headers : h.section = section
    THEN (CHOOSE h \in headers : h.section = section).cols
    ELSE <<>>

\* values + [""] * (len(header) - len(values)), cut to len(header)
padded(header, values) ==
    [i \in 1..Len(header) |-> IF i <= Len(values) THEN values[i] ELSE <<>>]

\* dict(zip(header, cells)): a repeated column name keeps its last cell
zip_dict(header, cells) ==
    [c \in { header[i] : i \in 1..Len(header) } |->
        cells[CHOOSE i \in 1..Len(header) :
                 header[i] = c /\ \A j \in (i + 1)..Len(header) : header[j] # c]]

\* mutant: the first Header record of a section is kept (setdefault)
header_record_first_wins(st, raw_row) ==
    IF \E h \in st.headers : h.section = section_of(raw_row)
    THEN [st EXCEPT !.i = st.i + 1]
    ELSE [st EXCEPT !.headers =
             st.headers \cup { [section |-> section_of(raw_row), cols |-> stripped_tail(raw_row)] },
             !.i = st.i + 1]

\* headers[section] = [...]
header_record(st, raw_row) ==
    [st EXCEPT !.headers =
        { h \in st.headers : h.section # section_of(raw_row) }
            \cup { [section |-> section_of(raw_row), cols |-> stripped_tail(raw_row)] },
        !.i = st.i + 1]

\* mutant: a Data record without a header is kept as an empty row
data_record_headerless(st, raw_row) ==
    LET section == section_of(raw_row)
        header  == headers_get(st.headers, section)
        values  == stripped_tail(raw_row)
    IN  [st EXCEPT !.rows[section] = Append(@, zip_dict(header, padded(header, values))),
                   !.i = st.i + 1]

\* a Data record: one row dict under the section's current header
data_record(st, raw_row) ==
    LET section == section_of(raw_row)
        header  == headers_get(st.headers, section)
        values  == stripped_tail(raw_row)
    IN  IF header # <<>>
        THEN [st EXCEPT !.rows[section] = Append(@, zip_dict(header, padded(header, values))),
                        !.i = st.i + 1]
        ELSE [st EXCEPT !.i = st.i + 1]

\* mutant: raw_row[2] and raw_row[3] are read without the length test
meta_record_unguarded(st, raw_row) ==
    IF Len(raw_row) >= 4
    THEN [st EXCEPT !.metainfo =
             { m \in st.metainfo :
                 ~(m.section = section_of(raw_row) /\ m.key = str_strip(raw_row[3])) }
                 \cup { [section |-> section_of(raw_row),
                         key |-> str_strip(raw_row[3]),
                         val |-> str_strip(raw_row[4])] },
             !.i = st.i + 1]
    ELSE [st EXCEPT !.op = "raised", !.error = "IndexError"]

\* a MetaInfo record: metainfo[section][key] = val when it has four fields
meta_record(st, raw_row) ==
    IF Len(raw_row) >= 4
    THEN [st EXCEPT !.metainfo =
             { m \in st.metainfo :
                 ~(m.section = section_of(raw_row) /\ m.key = str_strip(raw_row[3])) }
                 \cup { [section |-> section_of(raw_row),
                         key |-> str_strip(raw_row[3]),
                         val |-> str_strip(raw_row[4])] },
             !.i = st.i + 1]
    ELSE [st EXCEPT !.i = st.i + 1]

\* {k: pd.DataFrame(v) for k, v in rows.items()}: the sections with a row
frames_of(rows) ==
    [k \in { s \in DOMAIN rows : rows[s] # <<>> } |-> rows[k]]

RawRowChoices ==
    { <<>>,
      << POS >>,
      << POS, SECTION_HEADER, <<"S","y","m","b","o","l">>, <<"V","a","l","u","e">> >>,
      << POS, SECTION_HEADER >>,
      << POS, SECTION_HEADER, <<"V","a","l","u","e">>, <<"V","a","l","u","e">> >>,
      << DIV, SECTION_HEADER, <<"S","y","m","b","o","l">> >>,
      << POS, SECTION_DATA, <<"A","A","P","L">>, <<"1","2","0">> >>,
      << POS, SECTION_DATA, <<"A","A","P","L">> >>,
      << POS, SECTION_DATA, <<"A","A","P","L">>, <<"1","2","0">>, <<"e","x","t","r","a">> >>,
      << <<" ","P","o","s">>, <<" ","D","a","t","a"," ">>, <<" ","I","B","M"," ">>, <<"5">> >>,
      << DIV, SECTION_DATA, <<"I","B","M">>, <<"5">> >>,
      << POS, <<"T","o","t","a","l">>, <<"A","A","P","L">>, <<"1","2","0">> >>,
      << POS, SECTION_META, <<"P","e","r","i","o","d">>, <<"Q","4">> >>,
      << POS, SECTION_META, <<"P","e","r","i","o","d">> >> }

StatementFiles == BSeq(RawRowChoices, MaxRecords)

ParserInit ==
    /\ pc = "parser"
    /\ sections = EmptyStatement
    /\ holdings = <<>>
    /\ total_nav = 0
    /\ settled_cash = 0
    /\ win = Idle
    /\ comp = Idle
    /\ summary_rows = <<>>
    /\ norm = Idle
    /\ risk = Idle
    /\ run = Idle
    /\ \/ csv = [op |-> "call", exists |-> FALSE, file |-> <<>>]
       \/ \E f \in StatementFiles : csv = [op |-> "call", exists |-> TRUE, file |-> f]

Reading == csv.op = "reading" /\ csv.i <= Len(csv.file)

raw_row == csv.file[csv.i]

\* if not path.exists(): raise FileNotFoundError
path_missing ==
    /\ csv.op = "call"
    /\ ~csv.exists
    /\ csv' = [op |-> "raised", exists |-> FALSE, file |-> csv.file,
               error |-> "FileNotFoundError"]
    /\ UNCHANGED <<pc, sections, holdings, total_nav, settled_cash, win, comp,
                   summary_rows, norm, risk, run>>

\* the file is opened with no header, no row and no metainfo
open_file ==
    /\ csv.op = "call"
    /\ csv.exists
    /\ csv' = [op |-> "reading", exists |-> TRUE, file |-> csv.file, i |-> 1,
               headers |-> {}, rows |-> [s \in SectionNames |-> <<>>],
               metainfo |-> {}, error |-> "none"]
    /\ UNCHANGED <<pc, sections, holdings, total_nav, settled_cash, win, comp,
                   summary_rows, norm, risk, run>>

IsBlank == raw_row = <<>>
IsHeader == raw_row # <<>> /\ record_type_of(raw_row) = SECTION_HEADER
IsData == raw_row # <<>> /\ record_type_of(raw_row) = SECTION_DATA
IsMeta == raw_row # <<>> /\ record_type_of(raw_row) = SECTION_META
IsOther ==
    /\ raw_row # <<>>
    /\ record_type_of(raw_row) \notin {SECTION_HEADER, SECTION_DATA, SECTION_META}

\* if not raw_row: continue
read_blank_row ==
    /\ Reading /\ IsBlank
    /\ csv' = [csv EXCEPT !.i = csv.i + 1]
    /\ UNCHANGED <<pc, sections, holdings, total_nav, settled_cash, win, comp,
                   summary_rows, norm, risk, run>>

read_header_record ==
    /\ Reading /\ IsHeader
    /\ csv' = header_record(csv, raw_row)
    /\ UNCHANGED <<pc, sections, holdings, total_nav, settled_cash, win, comp,
                   summary_rows, norm, risk, run>>

read_data_record ==
    /\ Reading /\ IsData
    /\ csv' = data_record(csv, raw_row)
    /\ UNCHANGED <<pc, sections, holdings, total_nav, settled_cash, win, comp,
                   summary_rows, norm, risk, run>>

read_meta_record ==
    /\ Reading /\ IsMeta
    /\ csv' = meta_record(csv, raw_row)
    /\ UNCHANGED <<pc, sections, holdings, total_nav, settled_cash, win, comp,
                   summary_rows, norm, risk, run>>

\* a record of any other kind falls through the if/elif chain
read_other_record ==
    /\ Reading /\ IsOther
    /\ csv' = [csv EXCEPT !.i = csv.i + 1]
    /\ UNCHANGED <<pc, sections, holdings, total_nav, settled_cash, win, comp,
                   summary_rows, norm, risk, run>>

\* return dfs, metainfo
return_frames ==
    /\ csv.op = "reading"
    /\ csv.i > Len(csv.file)
    /\ csv' = [op |-> "returned", exists |-> TRUE, file |-> csv.file,
               dfs |-> frames_of(csv.rows), rows |-> csv.rows,
               metainfo |-> csv.metainfo, error |-> "none"]
    /\ UNCHANGED <<pc, sections, holdings, total_nav, settled_cash, win, comp,
                   summary_rows, norm, risk, run>>

ParserNext ==
    \/ path_missing
    \/ open_file
    \/ read_blank_row
    \/ read_header_record
    \/ read_data_record
    \/ read_meta_record
    \/ read_other_record
    \/ return_frames

SpecParser == ParserInit /\ [][ParserNext]_vars

(***************************************************************************)
(* Record reader properties                                                *)
(***************************************************************************)
\* the records read so far
ReadSoFar ==
    IF csv.op = "reading" THEN csv.i - 1
    ELSE IF csv.op = "returned" THEN Len(csv.file)
    ELSE 0

IsRecord(j, section, kind) ==
    /\ csv.file[j] # <<>>
    /\ section_of(csv.file[j]) = section
    /\ record_type_of(csv.file[j]) = kind

\* the Header record of the section that record j is read under, 0 if none
HeaderBefore(j, section) ==
    IF \E k \in 1..(j - 1) : IsRecord(k, section, SECTION_HEADER)
    THEN CHOOSE k \in 1..(j - 1) :
            /\ IsRecord(k, section, SECTION_HEADER)
            /\ \A m \in (k + 1)..(j - 1) : ~IsRecord(m, section, SECTION_HEADER)
    ELSE 0

\* the Data records of the section, among the first n records, that follow
\* a Header record of the section naming at least one column
RowSources(section, n) ==
    { j \in 1..n :
        /\ IsRecord(j, section, SECTION_DATA)
        /\ HeaderBefore(j, section) # 0
        /\ Len(csv.file[HeaderBefore(j, section)]) > 2 }

\* the number of Data records of the section among the first n records
\* that follow one of its Header records
DataAfterHeader(section, n) ==
    { j \in 1..n : IsRecord(j, section, SECTION_DATA) /\ HeaderBefore(j, section) # 0 }

\* C11: every row of a section table comes from a Data record of that
\* section read after a Header record of that section: a Data record before
\* its section's header gives no row, and a record that is neither Header
\* nor Data gives no row in any table.
C11_RowsFromDataAfterHeader ==
    csv.op \in {"reading", "returned"} =>
        \A section \in SectionNames :
            /\ Len(csv.rows[section]) = Cardinality(RowSources(section, ReadSoFar))
            /\ Len(csv.rows[section]) <= Cardinality(DataAfterHeader(section, ReadSoFar))
            /\ \A n \in 1..ReadSoFar :
                  \A j \in RowSources(section, n) :
                     LET r == csv.rows[section][Cardinality(RowSources(section, j))]
                         h == stripped_tail(csv.file[HeaderBefore(j, section)])
                         v == stripped_tail(csv.file[j])
                     IN  /\ DOMAIN r = { h[x] : x \in 1..Len(h) }
                         /\ \A x \in 1..Len(h) :
                               (\A y \in (x + 1)..Len(h) : h[y] # h[x])
                                   => r[h[x]] = IF x <= Len(v) THEN v[x] ELSE <<>>

\* a returned file with a Data record ahead of its section's header, a
\* record of an unknown kind, and a Data record that did give a row
C11_Witness ==
    /\ csv.op = "returned"
    /\ \E j \in 1..Len(csv.file) :
          IsRecord(j, POS, SECTION_DATA) /\ HeaderBefore(j, POS) = 0
    /\ \E j \in 1..Len(csv.file) :
          /\ csv.file[j] # <<>>
          /\ record_type_of(csv.file[j]) \notin {SECTION_HEADER, SECTION_DATA, SECTION_META}
          /\ Len(csv.file[j]) > 2
    /\ \E section \in SectionNames : csv.rows[section] # <<>>
    /\ POS \notin DOMAIN csv.dfs \/ Len(csv.dfs[POS]) < Cardinality({ j \in 1..Len(csv.file) : IsRecord(j, POS, SECTION_DATA) })

\* C12: the reader raises exactly when the path does not exist
\* (FileNotFoundError); on an existing file every record is absorbed
\* (exactly one branch of the loop takes it) and the reader returns.
C12_RaisesOnlyWhenMissing ==
    /\ csv.op = "raised" => (~csv.exists /\ csv.error = "FileNotFoundError")
    /\ (~csv.exists /\ csv.op # "call") => csv.op = "raised"
    /\ (csv.exists /\ csv.op # "call") => csv.op \in {"reading", "returned"}
    /\ Reading =>
          Cardinality({ b \in {"blank", "header", "data", "meta", "other"} :
                          \/ b = "blank" /\ IsBlank
                          \/ b = "header" /\ IsHeader
                          \/ b = "data" /\ IsData
                          \/ b = "meta" /\ IsMeta
                          \/ b = "other" /\ IsOther }) = 1

\* a returned file holding a MetaInfo record of three fields, a blank or
\* one-field row, and a Data record shorter than its header whose row was
\* padded with an empty cell
C12_Witness ==
    /\ csv.op = "returned"
    /\ \E j \in 1..Len(csv.file) :
          IsRecord(j, POS, SECTION_META) /\ Len(csv.file[j]) < 4
    /\ \E j \in 1..Len(csv.file) : Len(csv.file[j]) <= 1
    /\ \E k \in 1..Len(csv.rows[POS]) :
          \E c \in DOMAIN csv.rows[POS][k] : csv.rows[POS][k][c] = <<>>

(***************************************************************************)
(* The field normalizer run on single cells                                *)
(***************************************************************************)
\* return_metrics.calculate_nav_performance.parse_val on the cell of the
\* field: "," and "$" removed, parentheses for a negative, 0.0 on any error
parse_val(val_str) ==
    LET clean == str_strip(str_remove(str_remove(val_str, ","), "$"))
        unwrapped ==
            IF str_startswith(clean, <<"(">>) /\ str_endswith(clean, <<")">>)
            THEN <<"-">> \o SubSeq(clean, 2, Len(clean) - 1)
            ELSE clean
        parsed == py_float(unwrapped)
    IN  IF parsed.ok THEN [k |-> parsed.k, v |-> parsed.v] ELSE Finite(0)

CellPrefixes == { <<>>, <<"$">>, <<"(">>, <<"(","$">>, <<"-">>, <<" ">> }

CellBodies ==
    { <<>>, <<"5","0","0">>, <<"1",",","2","5","0">>, <<"1","2",".","5">>, <<".","0","7">>, <<"-","5">>,
      <<"n","a","n">>, <<"I","n","f">>, <<"N","/","A">>, <<"1",".","2",".","3">> }

CellSuffixes == { <<>>, <<")">>, <<"%">>, <<" ">> }

CellChoices ==
    { a \o b \o c : a \in CellPrefixes, b \in CellBodies, c \in CellSuffixes }

NormalizerInit ==
    /\ pc = "normalizer"
    /\ sections = EmptyStatement
    /\ holdings = <<>>
    /\ total_nav = 0
    /\ settled_cash = 0
    /\ win = Idle
    /\ comp = Idle
    /\ summary_rows = <<>>
    /\ csv = Idle
    /\ risk = Idle
    /\ run = Idle
    /\ \E c \in CellChoices : norm = [op |-> "cell", value |-> c]

call__coerce_float ==
    /\ norm.op = "cell"
    /\ norm' = [op |-> "float", value |-> norm.value, out |-> _coerce_float(norm.value)]
    /\ UNCHANGED <<pc, sections, holdings, total_nav, settled_cash, win, comp,
                   summary_rows, csv, risk, run>>

call_parse_val ==
    /\ norm.op = "cell"
    /\ norm' = [op |-> "parse_val", value |-> norm.value, out |-> parse_val(norm.value)]
    /\ UNCHANGED <<pc, sections, holdings, total_nav, settled_cash, win, comp,
                   summary_rows, csv, risk, run>>

NormalizerNext == call__coerce_float \/ call_parse_val

SpecNormalizer == NormalizerInit /\ [][NormalizerNext]_vars

(***************************************************************************)
(* Normalizer properties                                                   *)
(***************************************************************************)
\* a well-formed number: optional sign, digits with at most one decimal
\* point and at least one digit
IsDecimal(s) ==
    LET body == IF s # <<>> /\ (Head(s) = "-" \/ Head(s) = "+") THEN Tail(s) ELSE s
        k    == DotIndex(body)
    IN  /\ AllDigits(SubSeq(body, 1, k - 1))
        /\ AllDigits(SubSeq(body, k + 1, Len(body)))
        /\ Len(body) - (IF k <= Len(body) THEN 1 ELSE 0) >= 1

DecimalCents(s) ==
    LET neg  == Head(s) = "-"
        body == IF Head(s) = "-" \/ Head(s) = "+" THEN Tail(s) ELSE s
        k    == DotIndex(body)
        mag  == DigitsVal(SubSeq(body, 1, k - 1)) * 100
                    + FracCents(SubSeq(body, k + 1, Len(body)))
    IN  IF neg THEN -mag ELSE mag

\* the cell without thousands separators, currency and percent symbols and
\* surrounding blanks
Bare(value) == str_strip(SelectSeq(value, LAMBDA ch : ch \notin {",", "$", "%"}))

\* the number the cell stands for, 0 for an empty or unparseable cell
NumberOf(value) ==
    LET b     == Bare(value)
        inner == SubSeq(b, 2, Len(b) - 1)
    IN  IF Len(b) >= 2 /\ b[1] = "(" /\ b[Len(b)] = ")"
        THEN IF IsDecimal(inner) /\ Head(inner) \notin {"-", "+"}
             THEN -DecimalCents(inner)
             ELSE 0
        ELSE IF IsDecimal(b) THEN DecimalCents(b)
        ELSE 0

\* C13: _coerce_float is total on raw cells: separators and currency
\* symbols removed, a parenthesized value negated ("(500)" gives -500), a
\* well-formed number gives its value, and an empty, missing or unparseable
\* cell gives 0.0.
C13_CoerceFloatTotal ==
    norm.op = "float" =>
        /\ norm.out = Finite(NumberOf(norm.value))
        /\ norm.value = <<"(","5","0","0",")">> => norm.out = Finite(-50000)

(***************************************************************************)
(* The reconciliation engine run on statements with section artifacts,     *)
(* repeated symbols and missing tables                                     *)
(***************************************************************************)
MaxEngineRows == 2

EnginePositionRows ==
    { [Symbol |-> AAPL, Value |-> <<"1","2","0","0">>, CostBasis |-> <<"1","0","0","0">>],
      [Symbol |-> AAPL, Value |-> <<"3","0","0">>, CostBasis |-> <<"2","0","0">>],
      [Symbol |-> <<"t","o","t","a","l">>, Value |-> <<"1",",","5","0","0">>, CostBasis |-> <<"1",",","2","0","0">>],
      [Symbol |-> <<" "," ">>, Value |-> <<"4","0">>, CostBasis |-> <<"4","0">>] }

EngineDividendRows ==
    { [Symbol |-> AAPL, Amount |-> <<"1","0">>],
      [Symbol |-> <<"S","u","b","T","o","t","a","l">>, Amount |-> <<"1","0">>] }

EnginePerfRows ==
    { [Symbol |-> AAPL, RealizedPL |-> <<"0">>, Return |-> <<"3",".","0","7">>],
      [Symbol |-> AAPL, RealizedPL |-> <<"2","0">>, Return |-> <<"5",".","0","0">>],
      [Symbol |-> <<"T","O","T","A","L">>, RealizedPL |-> <<"2","0">>, Return |-> <<"4",".","0","0">>] }

EngineStatements ==
    [open_positions : BSeq(EnginePositionRows, MaxEngineRows),
     dividends : BSeq(EngineDividendRows, MaxEngineRows),
     perf_by_symbol : BSeq(EnginePerfRows, MaxEngineRows),
     key_statistics : {<<>>}]

EngineInit ==
    /\ pc = "engine"
    /\ sections \in EngineStatements
    /\ holdings = <<>>
    /\ total_nav = 0
    /\ settled_cash = 0
    /\ win = Idle
    /\ comp = Idle
    /\ summary_rows = <<>>
    /\ AuxIdle

call_process_holdings_from_data ==
    /\ pc = "engine"
    /\ holdings' = process_holdings_from_data(sections)
    /\ pc' = "engine_done"
    /\ UNCHANGED <<sections, total_nav, settled_cash, win, comp, summary_rows, aux>>

EngineNext == call_process_holdings_from_data

SpecEngine == EngineInit /\ [][EngineNext]_vars

(***************************************************************************)
(* Engine properties                                                       *)
(***************************************************************************)
\* a blank token or a TOTAL / SUBTOTAL line, in any letter case
IsSectionArtifact(symbol) ==
    \/ str_strip(symbol) = <<>>
    \/ str_upper(str_strip(symbol)) \in { <<"T","O","T","A","L">>, <<"S","U","B","T","O","T","A","L">> }

SourceRows ==
    Range(sections.open_positions) \cup Range(sections.dividends)
        \cup Range(sections.perf_by_symbol)

RawValue(t) ==
    LET g == SelectSeq(sections.open_positions, LAMBDA r : r.Symbol = t)
    IN  SumSeq([i \in 1..Len(g) |-> _coerce_float(g[i].Value).v])

RawCostBasis(t) ==
    LET g == SelectSeq(sections.open_positions, LAMBDA r : r.Symbol = t)
    IN  SumSeq([i \in 1..Len(g) |-> _coerce_float(g[i].CostBasis).v])

\* C14: is_valid_ticker rejects blank tokens and TOTAL / SUBTOTAL lines in
\* any letter case, and no row whose symbol fails the predicate gives a
\* record or an amount: every record's ticker is the symbol of a passing
\* row and its amounts are the sums over the rows of exactly that symbol.
C14_ArtifactsNeverEnter ==
    /\ \A r \in SourceRows : IsSectionArtifact(r.Symbol) => ~is_valid_ticker(r.Symbol)
    /\ pc = "engine_done" =>
          /\ \A i \in 1..Len(holdings) :
                /\ ~IsSectionArtifact(holdings[i].ticker)
                /\ \E r \in SourceRows :
                      r.Symbol = holdings[i].ticker /\ ~IsSectionArtifact(r.Symbol)
                /\ holdings[i].raw_value = RawValue(holdings[i].ticker)
                /\ holdings[i].avg_cost = RawCostBasis(holdings[i].ticker)
                /\ holdings[i].total_dividends = RawDividends(holdings[i].ticker)
                /\ holdings[i].realized_pl = RawRealized(holdings[i].ticker)
          /\ Len(holdings)
                = Cardinality({ r.Symbol : r \in { x \in SourceRows : ~IsSectionArtifact(x.Symbol) } })

\* every table carries an artifact line next to rows of an instrument
C14_Witness ==
    /\ pc = "engine_done"
    /\ holdings # <<>>
    /\ \E r \in Range(sections.open_positions) : IsSectionArtifact(r.Symbol)
    /\ \E r \in Range(sections.dividends) : IsSectionArtifact(r.Symbol)
    /\ \E r \in Range(sections.perf_by_symbol) : IsSectionArtifact(r.Symbol)
    /\ \E r \in Range(sections.open_positions) : r.Symbol = <<"t","o","t","a","l">>
    /\ \E r \in Range(sections.open_positions) : ~IsSectionArtifact(r.Symbol)

\* C18: a missing or empty source table is an empty table: without
\* positions every record has market value and cost 0 and comes from the
\* dividend or performance table, without dividends every record has
\* dividends 0, without performance rows every record has realized gain 0,
\* and with no table at all the output is empty.
C18_EmptyTablesDegrade ==
    pc = "engine_done" =>
        /\ sections.open_positions = <<>> =>
              /\ \A i \in 1..Len(holdings) :
                    /\ holdings[i].raw_value = 0
                    /\ holdings[i].avg_cost = 0
                    /\ holdings[i].avg_weight = Rat(0, 1)
                    /\ holdings[i].ticker \in DividendTickers \cup PerfTickers
              /\ Len(holdings) = Cardinality(DividendTickers \cup PerfTickers)
        /\ sections.dividends = <<>> =>
              \A i \in 1..Len(holdings) : holdings[i].total_dividends = 0
        /\ sections.perf_by_symbol = <<>> =>
              \A i \in 1..Len(holdings) :
                 /\ holdings[i].realized_pl = 0
                 /\ holdings[i].cumulative_return
                       = IF holdings[i].avg_cost > 0
                         THEN Rat(holdings[i].raw_value - holdings[i].avg_cost
                                     + holdings[i].total_dividends,
                                  holdings[i].avg_cost)
                         ELSE Rat(0, 1)
        /\ (sections.open_positions = <<>> /\ sections.dividends = <<>>
                /\ sections.perf_by_symbol = <<>>) => holdings = <<>>

\* no position table, and an instrument known from its dividends only
C18_Witness ==
    /\ pc = "engine_done"
    /\ sections.open_positions = <<>>
    /\ sections.perf_by_symbol = <<>>
    /\ holdings # <<>>
    /\ holdings[1].total_dividends # 0

\* the rows of a table in every order
Reorderings(rows) ==
    { [i \in 1..Len(rows) |-> rows[p[i]]] : p \in Permutations(1..Len(rows)) }

\* C20: for every permutation of the rows of the positions, dividends and
\* performance tables the engine gives the same set of instrument records,
\* equal in every field.
C20_OrderIndependent ==
    pc = "engine_done" =>
        \A o \in Reorderings(sections.open_positions),
           d \in Reorderings(sections.dividends),
           p \in Reorderings(sections.perf_by_symbol) :
            Range(process_holdings_from_data(
                     [open_positions |-> o, dividends |-> d, perf_by_symbol |-> p,
                      key_statistics |-> sections.key_statistics]))
                = Range(holdings)

(***************************************************************************)
(* risk_metrics.calculate_portfolio_risk                                   *)
(*                                                                         *)
(* A return series is a sequence of [date, r], sorted by date.  The factor *)
(* table is the table of factor returns after line 105: columns, and rows  *)
(* [date, vals] without missing cells.  A regression result is kept as the *)
(* data it was fitted on; linregress raises ValueError on an empty x and   *)
(* on an x of several identical values.                                    *)
(***************************************************************************)
MaxRiskObs == 4

RISK_TIME_HORIZON == 1

\* the factors of the loop at line 113, in dict order
factors == << "IWM", "IWD", "QUAL", "MTUM" >>

Zero == [k |-> "zero"]

\* metrics = {...: 0.0}
default_metrics ==
    [idiosyncratic_risk |-> Zero, r_squared |-> Zero,
     beta |-> [f \in { factors[i] : i \in 1..Len(factors) } |-> Zero]]

\* scipy.stats.linregress(x, y); the outcome on a single point is the
\* library's: a nan slope, or an exception
linregress(x, y, single_point) ==
    IF Len(x) = 0 THEN [k |-> "raise"]
    ELSE IF Len(x) > 1 /\ \A i \in 1..Len(x) : x[i] = x[1] THEN [k |-> "raise"]
    ELSE IF Len(x) = 1
    THEN (IF single_point = "raise" THEN [k |-> "raise"] ELSE [k |-> "nan"])
    ELSE [k |-> "fit", x |-> x, y |-> y]

\* df['nav'].pct_change().dropna() of the sorted history
pct_change(df) ==
    [i \in 1..(Len(df) - 1) |->
        [date |-> df[i + 1].date, r |-> Rat(df[i + 1].nav - df[i].nav, df[i].nav)]]

\* rows at or after start_date
from_date(s, start_date) == SelectSeq(s, LAMBDA o : o.date >= start_date)

\* the dates of a series
dates_of(s) == { s[i].date : i \in 1..Len(s) }

\* pd.concat([...], axis=1, join='inner'): the rows of s on the dates both
\* have; dropna() then removes the dates of a missing value
inner(s, other_dates) == SelectSeq(s, LAMBDA o : o.date \in other_dates)

\* residuals.std() * sqrt(252) and r_value ** 2 of a fit; the sample
\* deviation of a single residual is nan, r_value of a single point is 0.0
benchmark_metrics(fit) ==
    IF fit.k = "nan"
    THEN [idiosyncratic_risk |-> [k |-> "nan"], r_squared |-> Zero]
    ELSE [idiosyncratic_risk |-> [k |-> "residual_std", fit |-> fit],
          r_squared |-> [k |-> "r_squared", fit |-> fit]]

\* aligned_factors[ticker]
factor_column(aligned, ticker) == [i \in 1..Len(aligned) |-> aligned[i].vals[ticker]]

RECURSIVE factor_loop(_, _, _, _, _, _)
\* the loop of lines 113-119 from factor i on; an exception of linregress
\* leaves the loop for the except clause of line 121
factor_loop(i, beta, columns, aligned, y_port, single_point) ==
    IF i > Len(factors) THEN beta
    ELSE IF factors[i] \in columns /\ Len(aligned) > 1
    THEN LET fit == linregress(factor_column(aligned, factors[i]), y_port, single_point)
         IN  IF fit.k = "raise" THEN beta
             ELSE factor_loop(i + 1, [beta EXCEPT ![factors[i]] = [k |-> "slope", fit |-> fit]],
                              columns, aligned, y_port, single_point)
    ELSE factor_loop(i + 1, beta, columns, aligned, y_port, single_point)

\* lines 95-122: the betas, every exception absorbed
factor_betas(port_returns, download, single_point) ==
    IF port_returns = <<>> THEN default_metrics.beta
    ELSE IF download.k = "raise" THEN default_metrics.beta
    ELSE IF download.k = "empty" THEN default_metrics.beta
    ELSE LET aligned == inner(download.rows, dates_of(port_returns))
             y_port  == [i \in 1..Len(aligned) |->
                            (CHOOSE o \in Range(port_returns) : o.date = aligned[i].date).r]
         IN  IF aligned = <<>> THEN default_metrics.beta
             ELSE factor_loop(1, default_metrics.beta, download.columns, aligned,
                              y_port, single_point)

calculate_portfolio_risk(daily_nav_df, benchmark_series, lookback_years, download, single_point) ==
    IF daily_nav_df = <<>> \/ benchmark_series = <<>>
    THEN [k |-> "return", metrics |-> default_metrics, combined |-> <<>>]
    ELSE LET sorted     == sort_by_date(daily_nav_df)
             end_date   == sorted[Len(sorted)].date
             start_date == years_before(end_date, lookback_years)
             df         == IF lookback_years > 0 THEN from_date(sorted, start_date) ELSE sorted
             bench      == IF lookback_years > 0 THEN from_date(benchmark_series, start_date)
                           ELSE benchmark_series
             port_returns == pct_change(df)
             valid      == dropna(bench)
             y          == inner(port_returns, dates_of(valid))
             x          == inner(valid, dates_of(port_returns))
             combined   == [i \in 1..Len(y) |->
                               [date |-> y[i].date, Portfolio |-> y[i].r, Benchmark |-> x[i].r]]
             fit        == linregress([i \in 1..Len(x) |-> x[i].r],
                                      [i \in 1..Len(y) |-> y[i].r], single_point)
         IN  IF y # <<>> /\ fit.k = "raise"
             THEN [k |-> "raise", metrics |-> default_metrics, combined |-> combined]
             ELSE [k |-> "return",
                   combined |-> combined,
                   metrics |->
                     [idiosyncratic_risk |->
                          IF y # <<>> THEN benchmark_metrics(fit).idiosyncratic_risk ELSE Zero,
                      r_squared |->
                          IF y # <<>> THEN benchmark_metrics(fit).r_squared ELSE Zero,
                      beta |-> factor_betas(port_returns, download, single_point)]]

(***************************************************************************)
(* Histories, benchmark series and factor tables the calculator is run on  *)
(***************************************************************************)
RiskDates == << 20221230, 20240102, 20240103, 20240104, 20240105 >>

\* the wealth index on each date
RiskNav == [d \in { RiskDates[i] : i \in 1..5 } |->
               IF d = 20240103 THEN 110 ELSE IF d = 20240104 THEN 121 ELSE 100]

\* the dates of D in ascending order
SortedDates(D) ==
    [i \in 1..Cardinality(D) |-> CHOOSE d \in D : Cardinality({ e \in D : e < d }) = i - 1]

\* a history on at most MaxRiskObs of the dates, in date order
RiskHistories ==
    { [i \in 1..Cardinality(D) |-> [date |-> SortedDates(D)[i], nav |-> RiskNav[SortedDates(D)[i]]]] :
        D \in { X \in SUBSET { RiskDates[i] : i \in 1..5 } : Cardinality(X) <= MaxRiskObs } }

\* a benchmark return series on some of the dates, flat or varying, the
\* return of 2024-01-03 possibly missing
RiskBenchmarks ==
    UNION { { [i \in 1..Cardinality(D) |->
                 LET d == SortedDates(D)[i]
                 IN  [date |-> d,
                      r |-> IF flat \/ (missing /\ d = 20240103) THEN 0 ELSE d % 10,
                      nan |-> missing /\ d = 20240103]] :
              flat \in BOOLEAN, missing \in BOOLEAN } :
            D \in { X \in SUBSET { RiskDates[i] : i \in 2..5 } : Cardinality(X) <= MaxRiskObs } }

FactorDateChoices == { <<>>, <<20240103>>, <<20240103, 20240104>>, <<20240102, 20240103, 20240104>> }

FlatChoices == { {}, {"IWM"}, {"IWD"}, {"MTUM"}, {"IWM", "QUAL"} }

FactorColumnChoices == { {"IWM", "IWD", "QUAL", "MTUM"}, {"IWM", "IWD", "MTUM"} }

\* yf.download(...)['Close'] after pct_change().dropna(): an exception, an
\* empty table, or a table whose columns in flat have one value throughout
FactorDownloads ==
    { [k |-> "raise"], [k |-> "empty"] }
        \cup { [k |-> "table", columns |-> cols,
                rows |-> [i \in 1..Len(ds) |->
                             [date |-> ds[i],
                              vals |-> [c \in cols |-> IF c \in flat THEN 0 ELSE ds[i] % 10]]]] :
               cols \in FactorColumnChoices, ds \in FactorDateChoices, flat \in FlatChoices }

RiskInit ==
    /\ pc = "risk"
    /\ sections = EmptyStatement
    /\ holdings = <<>>
    /\ total_nav = 0
    /\ settled_cash = 0
    /\ win = Idle
    /\ comp = Idle
    /\ summary_rows = <<>>
    /\ csv = Idle
    /\ norm = Idle
    /\ run = Idle
    /\ \E h \in RiskHistories, b \in RiskBenchmarks, f \in FactorDownloads,
          sp \in {"nan", "raise"} :
          risk = [op |-> "call", daily_nav_df |-> h, benchmark_series |-> b,
                  download |-> f, single_point |-> sp]

call_calculate_portfolio_risk ==
    /\ risk.op = "call"
    /\ risk' = [op |-> "done", daily_nav_df |-> risk.daily_nav_df,
                benchmark_series |-> risk.benchmark_series,
                download |-> risk.download, single_point |-> risk.single_point,
                out |-> calculate_portfolio_risk(risk.daily_nav_df, risk.benchmark_series,
                                                 RISK_TIME_HORIZON, risk.download,
                                                 risk.single_point)]
    /\ UNCHANGED <<pc, sections, holdings, total_nav, settled_cash, win, comp,
                   summary_rows, csv, norm, run>>

RiskNext == call_calculate_portfolio_risk

SpecRisk == RiskInit /\ [][RiskNext]_vars

(***************************************************************************)
(* Risk calculator properties                                              *)
(***************************************************************************)
\* the portfolio returns within the lookback horizon
RiskPortReturns ==
    LET h == risk.daily_nav_df
    IN  IF h = <<>> THEN <<>>
        ELSE pct_change(from_date(h, years_before(h[Len(h)].date, RISK_TIME_HORIZON)))

\* the rows of the factor table aligned with the portfolio returns
AlignedFactorRows ==
    IF risk.download.k # "table" THEN <<>>
    ELSE inner(risk.download.rows, dates_of(RiskPortReturns))

HasColumn(f) == risk.download.k = "table" /\ f \in risk.download.columns

\* the regression of the portfolio on factor f fails: several aligned
\* observations of f, all equal
RegressionFails(f) ==
    /\ HasColumn(f)
    /\ Len(AlignedFactorRows) > 1
    /\ \A i \in 1..Len(AlignedFactorRows) :
          AlignedFactorRows[i].vals[f] = AlignedFactorRows[1].vals[f]

EnoughData(f) == HasColumn(f) /\ Len(AlignedFactorRows) > 1

FactorNames == { factors[i] : i \in 1..Len(factors) }

\* C15: a factor with fewer than 2 aligned observations keeps beta 0.0,
\* and a regression failure for one factor does not stop the others: every
\* factor with enough aligned data whose own regression does not fail has
\* its slope in the result.
C15_FactorFailuresIsolated ==
    (risk.op = "done" /\ risk.out.k = "return" /\ risk.daily_nav_df # <<>>
        /\ risk.benchmark_series # <<>>) =>
        \A f \in FactorNames :
            /\ ~EnoughData(f) => risk.out.metrics.beta[f] = Zero
            /\ (EnoughData(f) /\ ~RegressionFails(f)) => risk.out.metrics.beta[f].k = "slope"

\* the dates the portfolio returns and the benchmark series have in common
CommonDates ==
    LET h == risk.daily_nav_df
    IN  IF h = <<>> THEN {}
        ELSE dates_of(RiskPortReturns)
                \cap dates_of(dropna(from_date(risk.benchmark_series,
                                               years_before(h[Len(h)].date, RISK_TIME_HORIZON))))

InsufficientData ==
    \/ risk.daily_nav_df = <<>>
    \/ risk.benchmark_series = <<>>
    \/ Cardinality(CommonDates) <= 1

\* C16: with insufficient data for the benchmark regression (history or
\* benchmark empty, or at most one date in common) the calculator returns
\* the default metric map, every metric 0.0, and does not raise.
C16_InsufficientDataDefaults ==
    (risk.op = "done" /\ InsufficientData) =>
        /\ risk.out.k = "return"
        /\ risk.out.metrics = default_metrics

(***************************************************************************)
(* main.run_pipeline: the order of its blocks and what each does with a    *)
(* failure.  A run is started on the outcome of every input: whether the   *)
(* statement file exists, whether ingesting it raises ValueError, the      *)
(* since-inception history (file missing, no usable row, rows), the        *)
(* benchmark fetch (error, empty, rows), whether benchmark and history     *)
(* dates overlap, and whether the risk calculation and the writer raise.   *)
(***************************************************************************)
RunInputs ==
    [stmt_exists : BOOLEAN,
     ingest : {"ok", "ValueError"},
     history : {"missing", "empty", "rows"},
     fetch : {"error", "empty", "rows"},
     overlap : BOOLEAN,
     risk_raises : BOOLEAN,
     write_raises : BOOLEAN]

\* parse_since_inception_csv: without the file a DataFrame with no column,
\* without a usable row an empty DataFrame with the columns date and return
parse_since_inception_csv(history) ==
    [empty |-> history # "rows", has_date_column |-> history # "missing"]

\* prepare_chart_data: None without history rows, without a benchmark
\* series, or when no benchmark date lies within the history's dates
prepare_chart_data(daily_history, series_empty, overlap) ==
    IF daily_history.empty \/ series_empty THEN "None"
    ELSE IF ~overlap THEN "None"
    ELSE "frame"

PipelineInit ==
    /\ pc = "pipeline"
    /\ sections = EmptyStatement
    /\ holdings = <<>>
    /\ total_nav = 0
    /\ settled_cash = 0
    /\ win = Idle
    /\ comp = Idle
    /\ summary_rows = <<>>
    /\ csv = Idle
    /\ norm = Idle
    /\ risk = Idle
    /\ \E inp \in RunInputs :
          run = [op |-> "run", at |-> "start", inp |-> inp, parsed |-> FALSE,
                 daily_history |-> parse_since_inception_csv("missing"),
                 bench_empty |-> TRUE, chart_data |-> "unset",
                 risk_metrics |-> "unset", error |-> "none", report |-> "none"]

PipelineUnchanged ==
    UNCHANGED <<pc, sections, holdings, total_nav, settled_cash, win, comp,
                summary_rows, csv, norm, risk>>

\* lines 115-119: without the statement file the run returns
statement_file_missing ==
    /\ run.at = "start"
    /\ ~run.inp.stmt_exists
    /\ run' = [run EXCEPT !.at = "returned"]
    /\ PipelineUnchanged

\* line 124 inside the try of lines 121-214: a ValueError ends the run
ingest_statement ==
    /\ run.at = "start"
    /\ run.inp.stmt_exists
    /\ run' = IF run.inp.ingest = "ValueError"
              THEN [run EXCEPT !.at = "returned", !.error = "ValueError"]
              ELSE [run EXCEPT !.at = "history", !.parsed = TRUE]
    /\ PipelineUnchanged

\* lines 137-208: the history is loaded and daily_history['date'] is read;
\* only ValueError is caught, the KeyError of a missing column is not
load_history ==
    /\ run.at = "history"
    /\ LET dh == parse_since_inception_csv(run.inp.history)
       IN  run' = IF ~dh.has_date_column
                  THEN [run EXCEPT !.at = "crashed", !.error = "KeyError",
                                   !.daily_history = dh]
                  ELSE [run EXCEPT !.at = "fetch", !.daily_history = dh]
    /\ PipelineUnchanged

\* lines 240-260: the fetch, any exception absorbed
fetch_market_data ==
    /\ run.at = "fetch"
    /\ run' = [run EXCEPT !.at = "composite", !.bench_empty = (run.inp.fetch # "rows")]
    /\ PipelineUnchanged

\* lines 262-267: composite series, chart data, and len(chart_data) in the
\* progress line, outside any try
composite_and_chart ==
    /\ run.at = "composite"
    /\ LET cd == prepare_chart_data(run.daily_history, run.bench_empty, run.inp.overlap)
       IN  run' = IF cd = "None"
                  THEN [run EXCEPT !.at = "crashed", !.error = "TypeError",
                                   !.chart_data = cd]
                  ELSE [run EXCEPT !.at = "risk", !.chart_data = cd]
    /\ PipelineUnchanged

\* lines 269-312: benchmark windows, then the risk metrics in a try that
\* absorbs any exception
risk_profile ==
    /\ run.at = "risk"
    /\ run' = [run EXCEPT !.at = "write",
                          !.risk_metrics = IF run.inp.risk_raises THEN "empty" ELSE "metrics"]
    /\ PipelineUnchanged

\* lines 314-402: the summary rows and write_portfolio_report in a try
write_report ==
    /\ run.at = "write"
    /\ run' = [run EXCEPT !.at = "returned",
                          !.report = IF run.inp.write_raises THEN "failed" ELSE "written"]
    /\ PipelineUnchanged

PipelineNext ==
    \/ statement_file_missing
    \/ ingest_statement
    \/ load_history
    \/ fetch_market_data
    \/ composite_and_chart
    \/ risk_profile
    \/ write_report

SpecPipeline == PipelineInit /\ [][PipelineNext]_vars

(***************************************************************************)
(* Pipeline properties                                                     *)
(***************************************************************************)
\* C17: once the statement file exists and has been parsed, no later
\* failure aborts the run: it is never ended by an exception, and when it
\* has returned, write_portfolio_report has been called.
C17_DegradeAndContinue ==
    (run.op = "run" /\ run.parsed) =>
        /\ run.at # "crashed"
        /\ run.at = "returned" => run.report # "none"

(***************************************************************************)
(* Bucket summary properties                                               *)
(***************************************************************************)
BucketRows == SelectSeq(summary_rows, LAMBDA r : r.Type = "Bucket")

\* C19: the market values of the bucket aggregates sum to the total
\* portfolio market value (grand_value), every instrument belongs to
\* exactly one bucket, and the bucket allocations sum to 1 when the total
\* is not zero.
C19_BucketsSumToTotal ==
    pc = "summarised" =>
        /\ SumSeq([i \in 1..Len(BucketRows) |-> BucketRows[i].MarketValue]) = SumRawValue(holdings)
        /\ \A i \in 1..Len(holdings) :
              Cardinality({ j \in 1..Len(BucketRows) :
                              BucketRows[j].Name = holdings[i].asset_class }) = 1
        /\ \A j \in 1..Len(BucketRows) :
              BucketRows[j].MarketValue
                 = SumRawValue(SelectSeq(holdings,
                                         LAMBDA r : r.asset_class = BucketRows[j].Name))
        /\ SumRawValue(holdings) # 0 =>
              RatSumSeq([i \in 1..Len(BucketRows) |-> BucketRows[i].Allocation]) = Rat(1, 1)

\* two buckets with a non-zero total, one of them Cash
C19_Witness ==
    /\ pc = "summarised"
    /\ Len(BucketRows) >= 2
    /\ SumRawValue(holdings) # 0
    /\ \E j \in 1..Len(BucketRows) : BucketRows[j].IsCash /\ BucketRows[j].MarketValue # 0

(***************************************************************************)
(* Per-instrument aggregation and return properties                        *)
(***************************************************************************)
\* the record of ticker t in the engine's table
RecordOf(t) == holdings[CHOOSE i \in 1..Len(holdings) : holdings[i].ticker = t]

PositionRowsOf(t) == { i \in 1..Len(sections.open_positions) : sections.open_positions[i].Symbol = t }

\* C21: for each ticker the record's cost basis and market value are the
\* sums over all position rows with that ticker, its dividends and realized
\* gain are the sums over all dividend rows and all performance rows with
\* that ticker, and a ticker absent from a table gets 0 for its amounts.
C21_SumsPerTicker ==
    pc = "ingested" =>
        \A t \in SourceTickers :
            /\ Cardinality(RowsOfTicker(t)) = 1
            /\ RecordOf(t).raw_value = RawValue(t)
            /\ RecordOf(t).avg_cost = RawCostBasis(t)
            /\ RecordOf(t).total_dividends = RawDividends(t)
            /\ RecordOf(t).realized_pl = RawRealized(t)
            /\ t \notin PositionTickers => RecordOf(t).raw_value = 0 /\ RecordOf(t).avg_cost = 0
            /\ t \notin DividendTickers => RecordOf(t).total_dividends = 0
            /\ t \notin PerfTickers => RecordOf(t).realized_pl = 0

\* a ticker on two position rows with a non-zero value on each, next to a
\* ticker that has dividends and no position
C21_Witness ==
    /\ pc = "ingested"
    /\ \E t \in PositionTickers :
          /\ Cardinality(PositionRowsOf(t)) = 2
          /\ \A i \in PositionRowsOf(t) : _coerce_float(sections.open_positions[i].Value).v # 0
          /\ RecordOf(t).raw_value = 240000
    /\ \E t \in DividendTickers \ PositionTickers : RecordOf(t).total_dividends # 0

\* C22: for every instrument whose summed cost basis is exactly 0 and whose
\* market value is not zero, the record's cost basis equals its market
\* value and its cumulative return is 0.
C22_BasisRescue ==
    pc = "ingested" =>
        \A i \in 1..Len(holdings) :
            (RawCostBasis(holdings[i].ticker) = 0 /\ holdings[i].raw_value # 0) =>
                /\ holdings[i].avg_cost = holdings[i].raw_value
                /\ holdings[i].cumulative_return = Rat(0, 1)

\* (market_value + dividends + realized_gain) / cost_basis - 1
ReturnOnCost(value, cost, dividends, realized) ==
    Rat((value + dividends + realized) - cost, cost)

\* C23: every instrument's cumulative return equals (market_value +
\* dividends + realized_gain) / cost_basis - 1 whenever its cost basis is
\* not zero, positive or negative, and 0.0 when its cost basis is zero.
C23_ReturnFormula ==
    pc = "ingested" =>
        \A i \in 1..Len(holdings) :
            holdings[i].cumulative_return
                = IF holdings[i].avg_cost # 0
                  THEN ReturnOnCost(holdings[i].raw_value, holdings[i].avg_cost,
                                    holdings[i].total_dividends, holdings[i].realized_pl)
                  ELSE Rat(0, 1)

\* the performance rows of ticker t, in table order
PerfRowsOf(t) == SelectSeq(sections.perf_by_symbol, LAMBDA r : r.Symbol = t)

MembersOf(bucket) == SelectSeq(holdings, LAMBDA r : r.asset_class = bucket)

\* the bucket's return from its summed quantities
BucketReturnOnSums(bucket) ==
    LET m    == MembersOf(bucket)
        cost == SumSeq([i \in 1..Len(m) |-> m[i].avg_cost])
    IN  IF cost # 0
        THEN ReturnOnCost(SumSeq([i \in 1..Len(m) |-> m[i].raw_value]), cost,
                          SumSeq([i \in 1..Len(m) |-> m[i].total_dividends]),
                          SumSeq([i \in 1..Len(m) |-> m[i].realized_pl]))
        ELSE Rat(0, 1)

\* C24: each bucket's return is (sum_value + sum_dividends + sum_realized)
\* / sum_cost - 1 over the bucket's summed quantities, or 0 when the summed
\* cost is zero, and for a bucket with a single instrument it equals that
\* instrument's cumulative return.
C24_BucketReturn ==
    pc = "summarised" =>
        \A j \in 1..Len(BucketRows) :
            /\ BucketRows[j].Return = BucketReturnOnSums(BucketRows[j].Name)
            /\ Len(MembersOf(BucketRows[j].Name)) = 1 =>
                  BucketRows[j].Return = MembersOf(BucketRows[j].Name)[1].cumulative_return

\* the row that Data record j of the section gave
RowOf(section, j) == csv.rows[section][Cardinality(RowSources(section, j))]

\* the columns that Data record j of the section was read against
HeaderOf(section, j) == stripped_tail(csv.file[HeaderBefore(j, section)])

\* C25: every row emitted for a Data record has exactly the column names
\* of the header it was read against, one per column, with the values
\* assigned positionally: a record with fewer values than columns gets
\* empty strings for the remaining columns and values beyond the last
\* column are discarded.
C25_RowHasHeaderColumns ==
    csv.op \in {"reading", "returned"} =>
        \A section \in SectionNames :
            \A j \in RowSources(section, ReadSoFar) :
                LET r == RowOf(section, j)
                    h == HeaderOf(section, j)
                    v == stripped_tail(csv.file[j])
                IN  /\ DOMAIN r = { h[x] : x \in 1..Len(h) }
                    /\ Cardinality(DOMAIN r) = Len(h)
                    /\ \A x \in 1..Len(h) :
                          r[h[x]] = IF x <= Len(v) THEN v[x] ELSE <<>>

\* the Header records of the section among the records read so far
HeadersRead(section) == { k \in 1..ReadSoFar : IsRecord(k, section, SECTION_HEADER) }

\* each Data record read so far is keyed by the latest preceding Header
\* record of its section, or dropped when there is none or it is empty
KeyedByLatestHeader ==
    /\ csv.op = "reading" =>
          \A section \in SectionNames :
              headers_get(csv.headers, section)
                  = IF HeadersRead(section) = {} THEN <<>>
                    ELSE stripped_tail(csv.file[HeaderBefore(ReadSoFar + 1, section)])
    /\ csv.op \in {"reading", "returned"} =>
          \A section \in SectionNames :
              /\ Len(csv.rows[section]) = Cardinality(RowSources(section, ReadSoFar))
              /\ \A j \in 1..ReadSoFar :
                    IsRecord(j, section, SECTION_DATA) =>
                       IF j \in RowSources(section, ReadSoFar)
                       THEN DOMAIN RowOf(section, j)
                               = { HeaderOf(section, j)[x] : x \in 1..Len(HeaderOf(section, j)) }
                       ELSE \/ HeaderBefore(j, section) = 0
                            \/ HeaderOf(section, j) = <<>>
    /\ csv.op = "returned" =>
          /\ DOMAIN csv.dfs = { section \in SectionNames : RowSources(section, Len(csv.file)) # {} }
          /\ \A section \in DOMAIN csv.dfs : csv.dfs[section] = csv.rows[section]

\* a step of the reader keeps the rows already read, and a Header record
\* changes nothing of another section
RowsKeptByStep ==
    \A section \in SectionNames :
        /\ (csv.op = "reading" /\ csv'.op \in {"reading", "returned"}) =>
              SubSeq(csv'.rows[section], 1, Len(csv.rows[section])) = csv.rows[section]
        /\ (Reading /\ IsHeader /\ section_of(raw_row) # section /\ csv'.op = "reading") =>
              /\ headers_get(csv'.headers, section) = headers_get(csv.headers, section)
              /\ csv'.rows[section] = csv.rows[section]

\* C30: after any sequence of records each Data record is keyed by the most
\* recent Header record of its own section that precedes it: a later Header
\* of the section changes the columns of the following Data records only
\* (rows already read keep their keys), Header records of other sections
\* have no effect, a Header with no columns makes the following Data
\* records of the section be dropped, and a section that has a Header but
\* no Data record yields no table.
C30_KeyedByLatestHeader == [](KeyedByLatestHeader) /\ [][RowsKeptByStep]_vars

\* a returned file in which a section was given two different headers and
\* has a row under each, the first row keeping the columns of the first
C30_Witness ==
    /\ csv.op = "returned"
    /\ Cardinality(HeadersRead(POS)) = 2
    /\ POS \in DOMAIN csv.dfs
    /\ Len(csv.dfs[POS]) = 2
    /\ DOMAIN csv.dfs[POS][1] # DOMAIN csv.dfs[POS][2]
    /\ Cardinality(DOMAIN csv.dfs[POS][1]) = 2

(***************************************************************************)
(* Window start value properties                                           *)
(***************************************************************************)
\* the return of window w over the observations obs, counted back from
\* anchor: the start value is the value of the latest observation dated at
\* or before the start date, and the first value when that one is missing
\* or zero
FallbackReturn(obs, w, anchor) ==
    LET first == CHOOSE o \in obs : \A q \in obs : o.date <= q.date
        last  == CHOOSE o \in obs : \A q \in obs : q.date <= o.date
        start == IF StartFrom(anchor, w) < first.date THEN first.date ELSE StartFrom(anchor, w)
        from  == CHOOSE o \in obs :
                    o.date <= start /\ \A q \in obs : q.date <= start => q.date <= o.date
        value == IF from.nan \/ from.nav = 0 THEN first.nav ELSE from.nav
    IN  Val(Rat(last.nav - value, value))

\* the date of the last observation
LastDate(obs) == CHOOSE d \in { o.date : o \in obs } : \A q \in obs : q.date <= d

\* the observations have a first value to fall back on and a last value
HasEnds(obs) ==
    /\ obs # {}
    /\ LET first == CHOOSE o \in obs : \A q \in obs : o.date <= q.date
           last  == CHOOSE o \in obs : \A q \in obs : q.date <= o.date
       IN  ~first.nan /\ first.nav # 0 /\ ~last.nan

\* C26: in get_cumulative_return and in calculate_period_returns the start
\* value of a window is the value of the latest observation dated at or
\* before the resolved start date, and the series' first value when that
\* value is missing or zero, so that the window yields a return.
C26_StartValueWithFallback ==
    /\ (win.op = "get_cumulative_return" /\ win.window.kind \in Resolving) =>
          LET obs == { o \in Range(win.series) : ~o.nan }
          IN  HasEnds(obs) => win.out = FallbackReturn(obs, win.window, LastDate(obs))
    /\ win.op = "calculate_period_returns" =>
          LET obs == Until(win.series, win.report_date)
          IN  HasEnds(obs) =>
                 \A l \in Labels \ {"Period", "Inception"} :
                    win.out[l] = FallbackReturn(obs, LabelWindow(l), win.report_date)

(***************************************************************************)
(* Cumulative index properties                                             *)
(***************************************************************************)
RECURSIVE GrowthTo(_, _)
\* the product of (1 + r_i) over the first k returns, a missing return
\* counting as 0
GrowthTo(returns, k) ==
    IF k = 0 THEN Rat(1, 1)
    ELSE LET r == IF returns[k].nan THEN Rat(0, 1) ELSE returns[k].r
         IN  RatMul(RatAdd(Rat(1, 1), r), GrowthTo(returns, k - 1))

\* start_value x the product of (1 + r_i) over the dates i <= k
IndexAt(returns, start_value, k) == RatMul(Rat(start_value, 1), GrowthTo(returns, k))

\* C27: a return series is converted to a cumulative index whose value on
\* the k-th date is start_value x the product of (1 + r_i) over the dates
\* i <= k, a missing return counting as 0 (returns 0.01, 0.02 from 100 give
\* 101.0, 103.02), and the benchmark index that run_pipeline builds from
\* the composite series equals get_cumulative_index of that series.
C27_IndexIsCompounded ==
    /\ get_cumulative_index(<< ReturnCell(FALSE, 1, 100), ReturnCell(FALSE, 2, 100) >>, 100)
          = << [nan |-> FALSE, v |-> Rat(101, 1)], [nan |-> FALSE, v |-> Rat(10302, 100)] >>
    /\ comp.op = "index" =>
          /\ comp.nav = get_cumulative_index(composite_cells(comp.out), 100)
          /\ Len(comp.nav) = Len(comp.out.index)
          /\ \A k \in 1..Len(comp.nav) :
                /\ ~comp.nav[k].nan
                /\ comp.nav[k].v = IndexAt(composite_cells(comp.out), 100, k)
          /\ ~df_empty(comp.df) =>
                \A t \in comp.df.columns :
                   /\ Len(comp.bench_growth_period[t]) = Len(comp.df.index)
                   /\ \A k \in 1..Len(comp.df.index) :
                         /\ ~comp.bench_growth_period[t][k].nan
                         /\ comp.bench_growth_period[t][k].v
                               = IndexAt(column_cells(comp.df, t), 100, k)

\* two dates with a composite return on each, and a constituent missing on
\* the second date whose own index stays flat there
C27_Witness ==
    /\ comp.op = "index"
    /\ Len(comp.nav) = 2
    /\ comp.nav[1].v # Rat(100, 1)
    /\ comp.nav[2].v # comp.nav[1].v
    /\ \E t \in comp.df.columns :
          /\ comp.df.data[2][t].nan
          /\ ~comp.df.data[1][t].nan
          /\ comp.bench_growth_period[t][2] = comp.bench_growth_period[t][1]
          /\ comp.bench_growth_period[t][1].v # Rat(100, 1)

(***************************************************************************)
(* Benchmark alignment properties                                          *)
(***************************************************************************)
\* the history within the lookback horizon, as a set of observations
HorizonHistory ==
    LET h     == Range(risk.daily_nav_df)
        last  == CHOOSE o \in h : \A q \in h : q.date <= o.date
        start == MonthsBack(last.date, 12 * RISK_TIME_HORIZON)
    IN  { o \in h : o.date >= start }

\* the dates of the horizon that have a portfolio return: every date but
\* the first
ReturnDates ==
    { o.date : o \in { q \in HorizonHistory : \E e \in HorizonHistory : e.date < q.date } }

\* the portfolio return on date d: the change from the previous observation
PortfolioReturnOn(d) ==
    LET now  == CHOOSE o \in HorizonHistory : o.date = d
        prev == CHOOSE o \in HorizonHistory :
                   o.date < d /\ \A q \in HorizonHistory : q.date < d => q.date <= o.date
    IN  Rat(now.nav - prev.nav, prev.nav)

\* the dates on which the benchmark series has a value
BenchmarkDates == { o.date : o \in { q \in Range(risk.benchmark_series) : ~q.nan } }

\* C28: the benchmark regression uses exactly the dates present in both the
\* portfolio return series and the benchmark return series within the
\* lookback horizon, each with the two returns of that date; a date in one
\* series only, or with a missing value, gives no observation.
C28_RegressionOnCommonDates ==
    (risk.op = "done" /\ risk.daily_nav_df # <<>> /\ risk.benchmark_series # <<>>) =>
        LET combined == risk.out.combined
        IN  /\ { combined[i].date : i \in 1..Len(combined) } = ReturnDates \cap BenchmarkDates
            /\ Len(combined) = Cardinality(ReturnDates \cap BenchmarkDates)
            /\ \A i \in 1..Len(combined) :
                  /\ combined[i].Portfolio = PortfolioReturnOn(combined[i].date)
                  /\ \E o \in Range(risk.benchmark_series) :
                        o.date = combined[i].date /\ ~o.nan /\ o.r = combined[i].Benchmark
            /\ (risk.out.k = "return" /\ risk.out.metrics.r_squared # Zero) =>
                  /\ risk.out.metrics.r_squared.fit.x
                        = [i \in 1..Len(combined) |-> combined[i].Benchmark]
                  /\ risk.out.metrics.r_squared.fit.y
                        = [i \in 1..Len(combined) |-> combined[i].Portfolio]

\* a regression fitted on two dates while the history has a date before
\* the horizon, the benchmark has a missing value and the benchmark has a
\* date without a portfolio return
C28_Witness ==
    /\ risk.op = "done"
    /\ risk.out.k = "return"
    /\ Len(risk.out.combined) = 2
    /\ risk.out.metrics.r_squared # Zero
    /\ \E o \in Range(risk.benchmark_series) : o.nan /\ o.date \in ReturnDates
    /\ \E o \in Range(risk.benchmark_series) : ~o.nan /\ o.date \notin ReturnDates

====
